---------------------------- MODULE Spec2Model ----------------------------
(***************************************************************************)
(* A model of the trading decision engine: the rule engine                 *)
(* (files/strategy/rules.py), the paper broker and its guard wrapper       *)
(* (files/broker/paper.py, files/broker/guarded.py), the once-per-bar      *)
(* decision ledger and the live and replay drivers (files/main.py,         *)
(* files/backtest/engine.py).                                              *)
(*                                                                         *)
(* Prices, ATR values and quantities are integers (the code's floats in    *)
(* whole units); an Optional[float] is a sequence of length 0 (None) or 1. *)
(* Timestamps are integer milliseconds, as in the code.                    *)
(***************************************************************************)
EXTENDS Integers, Sequences, FiniteSets, TLC

-----------------------------------------------------------------------------
(* Optional values and small helpers                                       *)

None == << >>

Some(x) == << x >>

IsSome(o) == o # << >>

Get(o) == o[1]

Max(a, b) == IF a >= b THEN a ELSE b

Min(a, b) == IF a <= b THEN a ELSE b

Last(s) == s[Len(s)]

\* s[-n:] of Python
Tail_n(s, n) == IF Len(s) <= n THEN s ELSE SubSeq(s, Len(s) - n + 1, Len(s))

Range(s) == { s[i] : i \in 1..Len(s) }

-----------------------------------------------------------------------------
(* Program constants                                                       *)

\* rules.py: CONFIDENCE_ENTER = 0.60, in percent
CONFIDENCE_ENTER == 60

ATR_MULT == 2

TRAIL_ATR_MULT == 2

MAX_HOLD_BARS == 24

\* config.py: TIMEFRAME default "5m"; _timeframe_to_seconds("5m") = 300
ExpectedStepS == 300

\* main.py: step_ms = int(expected_step_s * 1000)
step_ms == ExpectedStepS * 1000

\* paper.py _cost_rate: bps / 10_000.0; money amounts are kept in 1/10000 units
BpsDenominator == 10000

\* config.py MAX_ORDER_SIZE default 1.0, in the unit of size_position (0.01)
MaxOrderSize == 100

-----------------------------------------------------------------------------
(* Bounds of the model                                                     *)

\* prices range over 1..MaxPrice
MaxPrice == 4

\* ATR values range over 0..MaxAtr (0 is the "missing or non-positive" case)
MaxAtr == 1

\* number of trailing-stop updates applied to one position
MaxTrailSteps == 3

\* operation times are multiples of TickMs (half a bar), up to MaxTick ticks
TickMs == step_ms \div 2

MaxTick == 2

\* cooldown_bars values examined: 0..MaxCooldown
MaxCooldown == 2

\* entry and exit prices of the broker specifications range over 1..MaxOpenPrice
MaxOpenPrice == 2

\* closes allowed in one run of a broker specification (bounds the cumulative PnL)
MaxCloses == 1

\* fee_bps and slippage_bps of the brokers (config.py FEE_BPS, SLIPPAGE_BPS)
FeeBps == 8

SlippageBps == 2

\* min_bars of the configuration (config.py MIN_BARS), scaled down
MinBars == 3

\* cooldown_bars of the configuration (config.py COOLDOWN_BARS)
CooldownBars == 1

\* the bar store grows to MaxBars bars
MaxBars == 6

\* live cycles run on one newest bar: the first poll and the re-polls
MaxPolls == 2

\* the bars of the driver specifications: close BasePrice, a wick of Spike on
\* a trending bar, ATR BarAtr, and a confidence of HighConfidence percent
BasePrice == 5

Spike == 2

BarAtr == 1

HighConfidence == 70

\* ts_ms values of arbitrary write attempts: -1..MaxLedgerTs
MaxLedgerTs == 4

\* restarts between write attempts
MaxRestarts == 2

\* the bars in the store while faults are injected
MaxFaultBars == 4

\* the bar timestamps (in steps) the verifier's files may hold
\* round prices and ATR values for the stop arithmetic
RoundEntry == 100

RoundPrices == { 90, 100, 110 }

RoundAtrs == { 2, 4, 8 }

\* bars past MAX_HOLD_BARS at which evaluate_exit is called
MaxOverHeld == 1

MaxVerifierTs == 3

\* the scenario's files: rows at 100, 200, 300, 400
ScenarioStep == 100

ScenarioLen == 4

LedgerTs == (-1)..MaxLedgerTs

Prices == 1..MaxPrice

Atrs == 0..MaxAtr

Sides == {"LONG", "SHORT"}

Ticks == { k * TickMs : k \in 0..MaxTick }

-----------------------------------------------------------------------------
(* core/types.py                                                           *)

Position(symbol, qty, side, entry_price, entry_ts_ms, stop_price, trailing_anchor_price) ==
    [ symbol |-> symbol, qty |-> qty, side |-> side, entry_price |-> entry_price,
      entry_ts_ms |-> entry_ts_ms, stop_price |-> stop_price,
      trailing_anchor_price |-> trailing_anchor_price ]

-----------------------------------------------------------------------------
(* strategy/rules.py                                                       *)

compute_initial_stop(side, entry_price, atr) ==
    IF side = "LONG" THEN entry_price - ATR_MULT * atr
                     ELSE entry_price + ATR_MULT * atr

\* A broken ratchet: the candidate replaces the previous stop.
RatchetLoosens(side, prev_stop, candidate) == candidate

\* rules.py 102, 112: new_stop = max(prev_stop, candidate) / min(prev_stop, candidate)
Ratchet(side, prev_stop, candidate) ==
    IF side = "LONG" THEN Max(prev_stop, candidate) ELSE Min(prev_stop, candidate)

\* A broken anchor: the bar's extreme replaces the previous anchor.
AnchorFollowsBar(side, prev_anchor, hi, lo) == IF side = "LONG" THEN hi ELSE lo

\* rules.py 96, 106: the favourable extreme, from the previous anchor and the bar
TrailAnchor(side, prev_anchor, hi, lo) ==
    IF side = "LONG"
    THEN (IF IsSome(prev_anchor) THEN Max(Get(prev_anchor), hi) ELSE hi)
    ELSE (IF IsSome(prev_anchor) THEN Min(Get(prev_anchor), lo) ELSE lo)

\* Returns (new_stop | None, new_anchor | None, reason).  latest_high and
\* latest_low are optional, the other inputs numbers (the NaN branches of the
\* code are not reachable with numbers).
compute_trailing_stop_update(position, latest_close, latest_high, latest_low, atr, atr_mult) ==
    LET hi == IF IsSome(latest_high) THEN Get(latest_high) ELSE latest_close
        lo == IF IsSome(latest_low) THEN Get(latest_low) ELSE latest_close
        prev_stop == position.stop_price
        prev_anchor == position.trailing_anchor_price
        anchor == TrailAnchor(position.side, prev_anchor, hi, lo)
        candidate == IF position.side = "LONG" THEN anchor - atr_mult * atr
                                               ELSE anchor + atr_mult * atr
    IN  IF atr <= 0
        THEN [ new_stop |-> None, new_anchor |-> prev_anchor,
               reason |-> "atr_missing_or_nonpositive" ]
        ELSE IF atr_mult <= 0
        THEN [ new_stop |-> None, new_anchor |-> prev_anchor,
               reason |-> "atr_mult_nonpositive" ]
        ELSE IF candidate <= 0
        THEN [ new_stop |-> None, new_anchor |-> Some(anchor),
               reason |-> "candidate_invalid" ]
        ELSE IF ~IsSome(prev_stop)
        THEN [ new_stop |-> Some(candidate), new_anchor |-> Some(anchor),
               reason |-> "init_stop" ]
        ELSE [ new_stop |-> Some(Ratchet(position.side, Get(prev_stop), candidate)),
               new_anchor |-> Some(anchor), reason |-> "ratchet" ]


MarketState(tradable, trend, volatility, cadence_ok, has_enough_bars, reason) ==
    [ tradable |-> tradable, trend |-> trend, volatility |-> volatility,
      cadence_ok |-> cadence_ok, has_enough_bars |-> has_enough_bars,
      reason |-> reason ]

\* confidence is the entry model's output in percent, None for NaN;
\* force_side is the FORCE_SIDE environment variable ("" when unset).
evaluate_entry(confidence, market_state, force_side) ==
    LET Signal(should_enter, side, conf, reason) ==
            [ should_enter |-> should_enter, side |-> side, confidence |-> conf,
              reason |-> reason ]
    IN  IF ~market_state.tradable
        THEN Signal(FALSE, "LONG", 0, market_state.reason)
        ELSE IF ~IsSome(confidence)
        THEN Signal(FALSE, "LONG", 0, "confidence_nan")
        ELSE IF force_side \in Sides
        THEN (IF Get(confidence) >= CONFIDENCE_ENTER
              THEN Signal(TRUE, force_side, Get(confidence), "forced")
              ELSE Signal(FALSE, force_side, Get(confidence), "forced_but_low_confidence"))
        ELSE IF market_state.trend = "up" /\ Get(confidence) >= CONFIDENCE_ENTER
        THEN Signal(TRUE, "LONG", Get(confidence), "trend_up_and_confident")
        ELSE IF market_state.trend = "down" /\ Get(confidence) >= CONFIDENCE_ENTER
        THEN Signal(TRUE, "SHORT", Get(confidence), "trend_down_and_confident")
        ELSE Signal(FALSE, "LONG", Get(confidence), "not_confident_or_flat_trend")

bars_held(entry_ts_ms, now_ts_ms, expected_step_s) ==
    IF expected_step_s <= 0 THEN 0
    ELSE Max(now_ts_ms - entry_ts_ms, 0) \div (expected_step_s * 1000)

\* evaluate_exit with the stop check applied on the entry bar as well
evaluate_exit_stops_on_entry_bar(position, close, now_ts_ms, market_state, expected_step_s) ==
    LET stop_hit ==
            /\ IsSome(position.stop_price)
            /\ \/ position.side = "LONG" /\ close <= Get(position.stop_price)
               \/ position.side = "SHORT" /\ close >= Get(position.stop_price)
    IN  IF ~market_state.tradable
        THEN [ should_exit |-> TRUE, reason |-> market_state.reason ]
        ELSE IF stop_hit
        THEN [ should_exit |-> TRUE, reason |-> "stop_hit" ]
        ELSE IF bars_held(position.entry_ts_ms, now_ts_ms, expected_step_s) >= MAX_HOLD_BARS
        THEN [ should_exit |-> TRUE, reason |-> "time_stop" ]
        ELSE [ should_exit |-> FALSE, reason |-> "" ]

\* close and now_ts_ms are the latest feature row's close and timestamp.
evaluate_exit(position, close, now_ts_ms, market_state, expected_step_s) ==
    LET same_bar_as_entry == now_ts_ms > 0 /\ position.entry_ts_ms = now_ts_ms
        stop_hit ==
            /\ ~same_bar_as_entry
            /\ IsSome(position.stop_price)
            /\ \/ position.side = "LONG" /\ close <= Get(position.stop_price)
               \/ position.side = "SHORT" /\ close >= Get(position.stop_price)
    IN  IF ~market_state.tradable
        THEN [ should_exit |-> TRUE, reason |-> market_state.reason ]
        ELSE IF stop_hit
        THEN [ should_exit |-> TRUE, reason |-> "stop_hit" ]
        ELSE IF bars_held(position.entry_ts_ms, now_ts_ms, expected_step_s) >= MAX_HOLD_BARS
        THEN [ should_exit |-> TRUE, reason |-> "time_stop" ]
        ELSE [ should_exit |-> FALSE, reason |-> "" ]

\* rules.py size_position returns 0.01; quantities are counted in that unit
size_position == 1

-----------------------------------------------------------------------------
(* broker/paper.py: a PaperBroker is the record of its fields              *)

\* the one instrument of a run (cfg.symbol)
ccxt_symbol == "BTC/USD"

Symbols == { ccxt_symbol }

PaperBroker(fee_bps, slippage_bps) ==
    [ fee_bps |-> fee_bps, slippage_bps |-> slippage_bps,
      tracked |-> [ s \in Symbols |-> None ],
      last_exit_ts_ms |-> [ s \in Symbols |-> None ],
      realized_pnl_usd_total |-> 0,
      trades_closed |-> 0 ]

\* in bps: the rate is cost_bps / 10000
cost_bps(b) == Max(b.fee_bps, 0) + Max(b.slippage_bps, 0)

notional(price, qty) == price * qty

\* Optional[Position]
get_tracked_position(b, symbol) == b.tracked[symbol]

update_stop(b, symbol, new_stop_price, new_trailing_anchor_price) ==
    IF ~IsSome(b.tracked[symbol]) THEN b
    ELSE LET pos == Get(b.tracked[symbol])
             anchor == IF IsSome(new_trailing_anchor_price)
                       THEN new_trailing_anchor_price
                       ELSE pos.trailing_anchor_price
             updated == [ pos EXCEPT !.stop_price = Some(new_stop_price),
                                     !.trailing_anchor_price = anchor ]
         IN  [ b EXCEPT !.tracked[symbol] = Some(updated) ]

\* A cooldown that is one bar short.
cooldown_one_bar_short(b, symbol, now_ts_ms, expected_step_s, cooldown_bars) ==
    IF cooldown_bars <= 0 \/ expected_step_s <= 0 \/ ~IsSome(b.last_exit_ts_ms[symbol])
    THEN 0
    ELSE Max(0, cooldown_bars - 1
                - (Max(now_ts_ms - Get(b.last_exit_ts_ms[symbol]), 0)
                     \div (expected_step_s * 1000)))

cooldown_remaining_bars(b, symbol, now_ts_ms, expected_step_s, cooldown_bars) ==
    IF cooldown_bars <= 0 THEN 0
    ELSE IF expected_step_s <= 0 THEN 0
    ELSE IF ~IsSome(b.last_exit_ts_ms[symbol]) THEN 0
    ELSE LET delta_ms == Max(now_ts_ms - Get(b.last_exit_ts_ms[symbol]), 0)
             bars_since == delta_ms \div (expected_step_s * 1000)
         IN  Max(0, cooldown_bars - bars_since)

\* open_position raises ValueError before anything else when size <= 0
open_position_raises(b, symbol, size) == size <= 0

\* the broker after open_position (unchanged when it raises or refuses)
open_position(b, symbol, side, size, entry_price, entry_ts_ms, stop_price, trailing_anchor_price) ==
    IF size <= 0 THEN b
    ELSE IF IsSome(b.tracked[symbol]) THEN b
    ELSE [ b EXCEPT !.tracked[symbol] =
             Some(Position(symbol, size, side, entry_price, entry_ts_ms,
                           stop_price, trailing_anchor_price)) ]

\* gross PnL in price units * quantity units
get_unrealized_pnl(b, symbol, last_price) ==
    IF ~IsSome(b.tracked[symbol]) THEN 0
    ELSE LET pos == Get(b.tracked[symbol])
         IN  IF pos.entry_price <= 0 THEN 0
             ELSE IF pos.side = "LONG"
             THEN (last_price - pos.entry_price) * pos.qty
             ELSE (pos.entry_price - last_price) * pos.qty

\* net PnL of closing at exit_price, in 1/10000 units
net_pnl(b, symbol, exit_price) ==
    LET pos == Get(b.tracked[symbol])
        cost == (notional(pos.entry_price, pos.qty) + notional(exit_price, pos.qty))
                  * cost_bps(b)
    IN  get_unrealized_pnl(b, symbol, exit_price) * BpsDenominator - cost

\* the trade dict realize_and_close returns for a tracked position
\* (exit_ts_ms is optional)
trade_of_close(b, symbol, exit_price, reason, exit_ts_ms) ==
    LET pos == Get(b.tracked[symbol])
    IN  [ symbol |-> symbol, exit_reason |-> reason, side |-> pos.side,
          qty |-> pos.qty, entry_price |-> pos.entry_price,
          exit_price |-> exit_price, entry_ts_ms |-> pos.entry_ts_ms,
          exit_ts_ms |-> exit_ts_ms, stop_price |-> pos.stop_price,
          realized_pnl_usd |-> net_pnl(b, symbol, exit_price),
          trades_closed |-> b.trades_closed + 1 ]

\* the broker after realize_and_close (exit_ts_ms is optional)
realize_and_close(b, symbol, exit_price, reason, exit_ts_ms) ==
    IF ~IsSome(b.tracked[symbol]) THEN b
    ELSE [ b EXCEPT
             !.realized_pnl_usd_total = @ + net_pnl(b, symbol, exit_price),
             !.trades_closed = @ + 1,
             !.tracked[symbol] = None,
             !.last_exit_ts_ms[symbol] =
                 IF IsSome(exit_ts_ms) THEN exit_ts_ms ELSE @ ]


-----------------------------------------------------------------------------
(* broker/guarded.py                                                       *)

\* Guardrails.from_env() together with the two files' presence: read afresh
\* by every open_position call.  A cap of 0 is "no cap".
Guardrails(kill_switch, halt_orders, armed, dry_run, max_order_usd, max_position_usd) ==
    [ kill_switch |-> kill_switch, halt_orders |-> halt_orders, armed |-> armed,
      dry_run |-> dry_run, max_order_usd |-> max_order_usd,
      max_position_usd |-> max_position_usd ]

\* A halt_reason that does not look at the kill-switch file.
halt_reason_ignores_kill(g) == IF g.halt_orders THEN "halt_orders" ELSE ""

\* "" stands for None
halt_reason(g) ==
    IF g.kill_switch THEN "kill_switch"
    ELSE IF g.halt_orders THEN "halt_orders"
    ELSE ""

\* A guard that tests the order cap before the inputs.
block_entry_reason_caps_first(inner, require_armed, g, symbol, side, size, entry_price) ==
    LET order_usd == entry_price * size
        existing_qty == IF IsSome(inner.tracked[symbol])
                        THEN Get(inner.tracked[symbol]).qty ELSE 0
        position_usd == entry_price * (existing_qty + size)
    IN  IF halt_reason(g) # "" THEN halt_reason(g)
        ELSE IF require_armed /\ g.dry_run THEN "dry_run"
        ELSE IF require_armed /\ ~g.armed THEN "not_armed"
        ELSE IF g.max_position_usd > 0 /\ position_usd > g.max_position_usd
        THEN "max_position_usd"
        ELSE IF g.max_order_usd > 0 /\ order_usd > g.max_order_usd THEN "max_order_usd"
        ELSE IF entry_price <= 0 \/ size <= 0 THEN "bad_inputs"
        ELSE ""

\* guarded.py 76-117
block_entry_reason(inner, require_armed, g, symbol, side, size, entry_price) ==
    LET order_usd == entry_price * size
        existing_qty == IF IsSome(inner.tracked[symbol])
                        THEN Get(inner.tracked[symbol]).qty ELSE 0
        position_usd == entry_price * (existing_qty + size)
    IN  IF halt_reason(g) # "" THEN halt_reason(g)
        ELSE IF require_armed /\ g.dry_run THEN "dry_run"
        ELSE IF require_armed /\ ~g.armed THEN "not_armed"
        ELSE IF entry_price <= 0 \/ size <= 0 THEN "bad_inputs"
        ELSE IF g.max_order_usd > 0 /\ order_usd > g.max_order_usd THEN "max_order_usd"
        ELSE IF g.max_position_usd > 0 /\ position_usd > g.max_position_usd
        THEN "max_position_usd"
        ELSE ""

\* GuardedBroker.open_position: the inner broker afterwards
guarded_open_position(inner, require_armed, g, symbol, side, size, entry_price, entry_ts_ms, stop_price, trailing_anchor_price) ==
    IF block_entry_reason(inner, require_armed, g, symbol, side, size, entry_price) # ""
    THEN inner
    ELSE open_position(inner, symbol, side, size, entry_price, entry_ts_ms,
                       stop_price, trailing_anchor_price)

\* GuardedBroker.open_position raises only when the inner call is made and raises
guarded_open_position_raises(inner, require_armed, g, symbol, side, size, entry_price) ==
    /\ block_entry_reason(inner, require_armed, g, symbol, side, size, entry_price) = ""
    /\ open_position_raises(inner, symbol, size)

\* GuardedBroker.realize_and_close passes through
guarded_realize_and_close(inner, symbol, exit_price, reason, exit_ts_ms) ==
    realize_and_close(inner, symbol, exit_price, reason, exit_ts_ms)


-----------------------------------------------------------------------------
(* Bars and features (data/features.py, strategy/filters.py)               *)

\* A stored bar with the feature columns compute_features derives for the
\* window that ends at it: atr, ema_spread (in 1/10000), the entry model's
\* confidence (in percent) and whether the latest feature row is free of NaNs.
Bar(ts, open, high, low, close, atr, ema_spread, confidence, valid) ==
    [ ts |-> ts, open |-> open, high |-> high, low |-> low, close |-> close,
      atr |-> atr, ema_spread |-> ema_spread, confidence |-> confidence,
      valid |-> valid ]

\* filters.py MarketStateConfig, in 1/10000
TrendUpSpread == 10

TrendDownSpread == -10

FlatSpreadBand == 7

VolLowMax == 15

VolHighMin == 30

\* main.py _cadence_ok: max(2.0, expected_step_s * 0.02) seconds
CadenceTolAbsS == 2

CadenceTolPct == 2

Abs(x) == IF x >= 0 THEN x ELSE -x

\* the k-th smallest element of a non-empty sequence of numbers
KthSmallest(d, k) ==
    CHOOSE v \in Range(d) :
        /\ Cardinality({ i \in DOMAIN d : d[i] < v }) < k
        /\ Cardinality({ i \in DOMAIN d : d[i] <= v }) >= k

\* twice the median of a non-empty sequence of numbers
TwiceMedian(d) ==
    LET n == Len(d)
    IN  IF n % 2 = 1 THEN 2 * KthSmallest(d, (n + 1) \div 2)
        ELSE KthSmallest(d, n \div 2) + KthSmallest(d, n \div 2 + 1)

\* the median spacing of the window's timestamps is within tolerance of the step
cadence_ok(df, expected_step_s) ==
    IF Len(df) < 3 THEN FALSE
    ELSE LET diffs == [ i \in 1..(Len(df) - 1) |-> df[i + 1].ts - df[i].ts ]
             tol_ms == Max(CadenceTolAbsS * 1000, (expected_step_s * 1000 * CadenceTolPct) \div 100)
         IN  Abs(TwiceMedian(diffs) - 2 * expected_step_s * 1000) <= 2 * tol_ms

classify_trend(ema_spread) ==
    IF Abs(ema_spread) <= FlatSpreadBand THEN "flat"
    ELSE IF ema_spread >= TrendUpSpread THEN "up"
    ELSE IF ema_spread <= TrendDownSpread THEN "down"
    ELSE "flat"

\* atr_pct is ATR / close, in 1/10000
classify_vol(atr_pct) ==
    IF atr_pct <= VolLowMax THEN "low"
    ELSE IF atr_pct >= VolHighMin THEN "high"
    ELSE "normal"

\* determine_market_state with the cadence rejection ahead of the row count
determine_market_state_cadence_first(feats, min_bars) ==
    LET has_enough == Len(feats) >= min_bars
        cadence == cadence_ok(feats, ExpectedStepS)
        latest_ok == Last(feats).valid
        last == Last(feats)
    IN  IF ~cadence
        THEN MarketState(FALSE, "flat", "normal", FALSE, has_enough, "cadence_not_ok")
        ELSE IF ~has_enough
        THEN MarketState(FALSE, "flat", "normal", cadence, FALSE, "not_enough_bars")
        ELSE IF ~latest_ok
        THEN MarketState(FALSE, "flat", "normal", TRUE, TRUE, "latest_features_invalid")
        ELSE MarketState(TRUE, classify_trend(last.ema_spread),
                         classify_vol((last.atr * 10000) \div last.close),
                         TRUE, TRUE, "ok")

\* feats is the window (non-empty, with all columns)
determine_market_state(feats, min_bars) ==
    LET has_enough == Len(feats) >= min_bars
        cadence == cadence_ok(feats, ExpectedStepS)
        latest_ok == Last(feats).valid
        last == Last(feats)
    IN  IF ~has_enough
        THEN MarketState(FALSE, "flat", "normal", cadence, FALSE, "not_enough_bars")
        ELSE IF ~cadence
        THEN MarketState(FALSE, "flat", "normal", FALSE, TRUE, "cadence_not_ok")
        ELSE IF ~latest_ok
        THEN MarketState(FALSE, "flat", "normal", TRUE, TRUE, "latest_features_invalid")
        ELSE MarketState(TRUE, classify_trend(last.ema_spread),
                         classify_vol((last.atr * 10000) \div last.close),
                         TRUE, TRUE, "ok")

\* main.py _drop_in_progress_last_bar_if_safe
drop_in_progress_last_bar_if_safe(df, min_bars) ==
    IF Len(df) >= min_bars + 1 THEN SubSeq(df, 1, Len(df) - 1) ELSE df

\* the bars the feed can close at ts
QuietBar(ts) ==
    Bar(ts, BasePrice, BasePrice, BasePrice, BasePrice, BarAtr, 0, Some(HighConfidence), TRUE)

UpBar(ts) ==
    Bar(ts, BasePrice, BasePrice + Spike, BasePrice, BasePrice, BarAtr, 2 * TrendUpSpread,
        Some(HighConfidence), TRUE)

DownBar(ts) ==
    Bar(ts, BasePrice, BasePrice, BasePrice - Spike, BasePrice, BarAtr, 2 * TrendDownSpread,
        Some(HighConfidence), TRUE)

\* a bar whose latest feature row holds a NaN
BadBar(ts) == [ QuietBar(ts) EXCEPT !.valid = FALSE ]

BarsAt(ts) == { QuietBar(ts), UpBar(ts), DownBar(ts), BadBar(ts) }

-----------------------------------------------------------------------------
(* The decision ledger (main.py 77-231, 395-435; engine.py 239-270)        *)

\* The text of a market_reason: "<mr>", or "DEGRADED(<why>)::<mr>" when why is
\* Some([kind, n]), the why text being "<kind>_x<n>_in_last6" (or just <kind>).
Text(why, mr) == [ why |-> why, mr |-> mr ]

NoText == Text(None, "")

Why(kind, n) == Some([ kind |-> kind, n |-> n ])

\* needle in r, for the two needles _is_degraded looks for
Mentions(r, needle) ==
    \/ r.mr = needle
    \/ needle = "features_invalid" /\ r.mr = "latest_features_invalid"
    \/ IsSome(r.why) /\ Get(r.why).kind = needle

DecisionFields ==
    { "ts_ms", "timestamp", "bar_high", "bar_low", "tradable", "trend", "volatility",
      "market_reason", "cooldown_remaining_bars", "position_side", "position_qty",
      "position_entry_price", "position_stop_price", "position_trailing_anchor_price",
      "unrealized_pnl_usd", "unrealized_pnl_pct", "trail_reason", "trail_new_stop",
      "trail_new_anchor", "entry_should_enter", "entry_side", "entry_confidence",
      "entry_reason", "exit_should_exit", "exit_reason" }

\* A blank string field is "", a blank number or boolean field is None.
\* now_iso is the timestamp itself (0 for "").
blank_decision_row(ts_ms, now_iso, bar_high, bar_low) ==
    [ ts_ms |-> ts_ms, timestamp |-> now_iso, bar_high |-> bar_high, bar_low |-> bar_low,
      tradable |-> None, trend |-> "", volatility |-> "", market_reason |-> NoText,
      cooldown_remaining_bars |-> None, position_side |-> "", position_qty |-> None,
      position_entry_price |-> None, position_stop_price |-> None,
      position_trailing_anchor_price |-> None, unrealized_pnl_usd |-> None,
      unrealized_pnl_pct |-> None, trail_reason |-> "", trail_new_stop |-> None,
      trail_new_anchor |-> None, entry_should_enter |-> None, entry_side |-> "",
      entry_confidence |-> None, entry_reason |-> "", exit_should_exit |-> None,
      exit_reason |-> "" ]

\* main.py 651-677, engine.py 320-346
decision_row(now_ts_ms, now_iso, latest_high, latest_low, market_state) ==
    [ blank_decision_row(now_ts_ms, now_iso, latest_high, latest_low) EXCEPT
        !.tradable = Some(market_state.tradable),
        !.trend = market_state.trend,
        !.volatility = market_state.volatility,
        !.market_reason = Text(None, market_state.reason) ]

\* position is Optional[Position]
fill_position_fields(row, position) ==
    IF ~IsSome(position)
    THEN [ row EXCEPT !.position_side = "", !.position_qty = None,
                      !.position_entry_price = None, !.position_stop_price = None,
                      !.position_trailing_anchor_price = None ]
    ELSE [ row EXCEPT !.position_side = Get(position).side,
                      !.position_qty = Some(Get(position).qty),
                      !.position_entry_price = Some(Get(position).entry_price),
                      !.position_stop_price = Get(position).stop_price,
                      !.position_trailing_anchor_price = Get(position).trailing_anchor_price ]

\* A dedupe test that lets the watermark's own timestamp through.
is_duplicate_ts_strict(last_decision_ts_ms, ts_ms) ==
    IsSome(last_decision_ts_ms) /\ ts_ms < Get(last_decision_ts_ms)

\* main.py 425, engine.py 260
is_duplicate_ts(last_decision_ts_ms, ts_ms) ==
    IsSome(last_decision_ts_ms) /\ ts_ms <= Get(last_decision_ts_ms)

\* _write_decision_once_per_bar: the ledger file and the watermark afterwards
write_decision_once_per_bar(file, last_decision_ts_ms, row) ==
    IF row.ts_ms <= 0
    THEN [ file |-> file, last |-> last_decision_ts_ms, appended |-> FALSE ]
    ELSE IF is_duplicate_ts(last_decision_ts_ms, row.ts_ms)
    THEN [ file |-> file, last |-> last_decision_ts_ms, appended |-> FALSE ]
    ELSE [ file |-> Append(file, row), last |-> Some(row.ts_ms), appended |-> TRUE ]

\* the last valid ts_ms of the file, in file order
read_last_ts_ms_from_decisions_csv(file) ==
    LET valid == { i \in DOMAIN file : file[i].ts_ms > 0 }
    IN  IF valid = {} THEN None
        ELSE Some(file[CHOOSE i \in valid : \A j \in valid : j <= i].ts_ms)

IsNonEmptyText(r) == r.mr # ""

read_tail_market_reasons(file, tail_n, window_k) ==
    LET all == [ i \in DOMAIN file |-> file[i].market_reason ]
        reasons == SelectSeq(all, IsNonEmptyText)
    IN  Tail_n(Tail_n(reasons, tail_n), window_k)

\* main.py 405: deque(maxlen=12)
RecentMaxLen == 12

\* main.py 406: tail_n=80, window_k=6
SeedTailN == 80

SeedWindowK == 6

\* main.py 221: the last 6 tags
WatchdogWindow == 6

\* main.py 227, 229: at least 2 occurrences
DegradedThreshold == 2

deque_append(d, x) == Tail_n(Append(d, x), RecentMaxLen)

is_degraded(recent_reasons, internal_cadence_ok) ==
    LET last == Tail_n(recent_reasons, WatchdogWindow)
        cadence_failed_n ==
            Cardinality({ i \in DOMAIN last : Mentions(last[i], "cadence_failed") })
        features_invalid_n ==
            Cardinality({ i \in DOMAIN last : Mentions(last[i], "features_invalid") })
    IN  IF ~internal_cadence_ok
        THEN [ degraded |-> TRUE, why |-> Why("internal_cadence_anomaly", 0) ]
        ELSE IF cadence_failed_n >= DegradedThreshold
        THEN [ degraded |-> TRUE, why |-> Why("cadence_failed", cadence_failed_n) ]
        ELSE IF features_invalid_n >= DegradedThreshold
        THEN [ degraded |-> TRUE, why |-> Why("features_invalid", features_invalid_n) ]
        ELSE [ degraded |-> FALSE, why |-> None ]

-----------------------------------------------------------------------------
(* One cycle of the live driver (main.py 453-871) and one iteration of the  *)
(* replay driver (engine.py 278-511), as functions of the state they read.  *)
(* The result: the broker afterwards, the rows handed to                    *)
(* _write_decision_once_per_bar (none or one), the tag appended to          *)
(* recent_reasons (NoText for none), the trade recorded (None for none),    *)
(* and whether trailing and the exit rules were evaluated.                  *)

\* main.py 438-439
live_tail_n == Max(MinBars, 200) + 1

\* engine.py 272
replay_tail_n == Max(MinBars, 200)

Outcome(b, rows, tag, trade, trailed, exit_evaluated) ==
    [ broker |-> b, rows |-> rows, tag |-> tag, trade |-> trade,
      trailed |-> trailed, exit_evaluated |-> exit_evaluated ]

\* paper.py 207-225: the second component, in 1/10000
get_unrealized_pnl_pct(b, symbol, last_price) ==
    IF ~IsSome(b.tracked[symbol]) THEN 0
    ELSE LET pos == Get(b.tracked[symbol])
         IN  IF pos.entry_price <= 0 THEN 0
             ELSE IF pos.side = "LONG"
             THEN ((last_price - pos.entry_price) * 10000) \div pos.entry_price
             ELSE ((pos.entry_price - last_price) * 10000) \div pos.entry_price

\* main.py 724-735 (engine.py 395-406): when the update r emits a stop that
\* differs from the stored one, store stop and anchor with update_stop
store_trailing_update(b, symbol, r) ==
    IF IsSome(r.new_stop)
       /\ (~IsSome(Get(b.tracked[symbol]).stop_price)
             \/ Get(r.new_stop) # Get(Get(b.tracked[symbol]).stop_price))
    THEN update_stop(b, symbol, Get(r.new_stop), r.new_anchor)
    ELSE b

\* main.py 713-735 (engine.py 384-406): compute the update and store it
trail_and_store(b, symbol, latest_close, latest_high, latest_low, latest_atr) ==
    store_trailing_update(b, symbol,
        compute_trailing_stop_update(Get(b.tracked[symbol]), latest_close,
                                     Some(latest_high), Some(latest_low), latest_atr,
                                     TRAIL_ATR_MULT))

\* the broker after the update r, and the decision row with its trail fields
\* (and the position fields again when the stop was stored)
trail_fields(b, row, r) ==
    LET row1 == [ row EXCEPT !.trail_reason = r.reason, !.trail_new_stop = r.new_stop,
                             !.trail_new_anchor = r.new_anchor ]
        updated == IsSome(r.new_stop)
                     /\ (~IsSome(Get(b.tracked[ccxt_symbol]).stop_price)
                           \/ Get(r.new_stop) # Get(Get(b.tracked[ccxt_symbol]).stop_price))
    IN  [ broker |-> store_trailing_update(b, ccxt_symbol, r),
          row |-> IF updated
                  THEN fill_position_fields(
                           row1, store_trailing_update(b, ccxt_symbol, r).tracked[ccxt_symbol])
                  ELSE row1 ]

\* the trailing step of a driver on bar
trail_step(b, row, bar) ==
    trail_fields(b, row,
        compute_trailing_stop_update(Get(b.tracked[ccxt_symbol]), bar.close, Some(bar.high),
                                     Some(bar.low), bar.atr, TRAIL_ATR_MULT))

\* A freeze that forgets the degraded flag.
freeze_trailing_ignores_degraded(halted_reason, degraded_mode) ==
    IF halted_reason # "" THEN "halted_freeze_trailing" ELSE ""

\* main.py 710-737: why the trailing update is skipped ("" when it is made)
freeze_trailing_reason(halted_reason, degraded_mode) ==
    IF halted_reason # "" THEN "halted_freeze_trailing"
    ELSE IF ~degraded_mode THEN ""
    ELSE "degraded_freeze_trailing"

\* main.py 752-754
live_exit_price(position, exit_reason, latest_close) ==
    IF exit_reason = "stop_hit" /\ IsSome(position.stop_price)
    THEN Get(position.stop_price) ELSE latest_close

\* A stop-through fill that takes the lower of open and stop on either side.
stop_through_ignores_side(position, exit_reason, latest_close, bar_open) ==
    IF exit_reason = "stop_hit" /\ IsSome(position.stop_price)
    THEN Min(bar_open, Get(position.stop_price))
    ELSE latest_close

\* engine.py 422-426
replay_exit_price(position, exit_reason, latest_close, bar_open) ==
    IF exit_reason = "stop_hit" /\ IsSome(position.stop_price)
    THEN (IF position.side = "LONG" THEN Min(bar_open, Get(position.stop_price))
                                    ELSE Max(bar_open, Get(position.stop_price)))
    ELSE latest_close

\* main.py 687-700 with the daily limits disabled (their defaults)
live_halted_reason(kill, halt) ==
    IF kill THEN "kill_switch" ELSE IF halt THEN "halt_orders" ELSE ""

\* main.py 710-737: the trailing step, or the tag of the freeze
live_trail(b, row, bar, freeze) ==
    IF freeze # "" THEN [ broker |-> b, row |-> [ row EXCEPT !.trail_reason = freeze ] ]
    ELSE trail_step(b, row, bar)

\* main.py 745-774: t is the broker and the row after the trailing step,
\* exit_sig the exit signal
live_close(t, bar, ms, exit_sig, trailed) ==
    LET position == Get(t.broker.tracked[ccxt_symbol])
        row2 == [ t.row EXCEPT !.exit_should_exit = Some(exit_sig.should_exit),
                               !.exit_reason = exit_sig.reason ]
        exit_reason == IF exit_sig.reason # "" THEN exit_sig.reason ELSE "exit"
        exit_price == live_exit_price(position, exit_reason, bar.close)
        exit_ts_ms == IF bar.ts > 0 THEN Some(bar.ts) ELSE None
    IN  IF exit_sig.should_exit
        THEN Outcome(guarded_realize_and_close(t.broker, ccxt_symbol, exit_price,
                                               exit_reason, exit_ts_ms),
                     << row2 >>, NoText,
                     Some(trade_of_close(t.broker, ccxt_symbol, exit_price, exit_reason,
                                         exit_ts_ms)),
                     trailed, TRUE)
        ELSE Outcome(t.broker, << row2 >>, Text(None, ms.reason), None, trailed, TRUE)

\* main.py 739-743: the exit rules on the position after the trailing step
live_exit(t, bar, ms, trailed) ==
    live_close(t, bar, ms,
               evaluate_exit(Get(t.broker.tracked[ccxt_symbol]), bar.close, bar.ts, ms,
                             ExpectedStepS),
               trailed)

\* main.py 705-774: a position is tracked
live_manage(b, row0, bar, ms, halted_reason, dm) ==
    live_exit(live_trail(b,
                         [ row0 EXCEPT
                             !.unrealized_pnl_usd =
                                 Some(get_unrealized_pnl(b, ccxt_symbol, bar.close)),
                             !.unrealized_pnl_pct =
                                 Some(get_unrealized_pnl_pct(b, ccxt_symbol, bar.close)) ],
                         bar, freeze_trailing_reason(halted_reason, dm)),
              bar, ms, freeze_trailing_reason(halted_reason, dm) = "")

\* The environment the guard reads at each call: whether the wrapper requires
\* arming (BROKER=alpaca), ARMED, DRY_RUN and MAX_ORDER_USD (0: no cap).
\* MAX_POSITION_USD is left unset.
GuardEnv(require_armed, armed, dry_run, max_order_usd) ==
    [ require_armed |-> require_armed, armed |-> armed, dry_run |-> dry_run,
      max_order_usd |-> max_order_usd ]

\* BROKER=paper and no cap
PaperEnv == GuardEnv(FALSE, FALSE, FALSE, 0)

\* main.py 794-868: the cooldown is over; entry_sig is the entry signal
live_enter(b, row1, entry_sig, bar, ms, halted_reason, dm, kill, halt, env) ==
    LET row2 == [ row1 EXCEPT !.entry_should_enter = Some(entry_sig.should_enter),
                              !.entry_side = entry_sig.side,
                              !.entry_confidence = Some(entry_sig.confidence),
                              !.entry_reason = entry_sig.reason ]
        size == Min(size_position, MaxOrderSize)
        entry_ts_ms == bar.ts + step_ms
        stop_price == compute_initial_stop(entry_sig.side, bar.close, bar.atr)
        g == Guardrails(kill, halt, env.armed, env.dry_run, env.max_order_usd, 0)
        b1 == guarded_open_position(b, env.require_armed, g, ccxt_symbol,
                                    entry_sig.side, size,
                                    bar.close, entry_ts_ms, Some(stop_price),
                                    Some(IF entry_sig.side = "LONG" THEN bar.high
                                                                    ELSE bar.low))
        blocked(why) == [ row1 EXCEPT !.entry_should_enter = Some(FALSE),
                                      !.entry_reason = why ]
    IN  IF dm
        THEN Outcome(b, << blocked("blocked_by_degraded") >>, NoText, None, FALSE, FALSE)
        ELSE IF halted_reason # ""
        THEN Outcome(b, << blocked("blocked_by_halt") >>, NoText, None, FALSE, FALSE)
        ELSE IF ~entry_sig.should_enter
        THEN Outcome(b, << row2 >>, Text(None, ms.reason), None, FALSE, FALSE)
        ELSE IF size <= 0
        THEN Outcome(b, << [ row2 EXCEPT !.entry_should_enter = Some(FALSE),
                                         !.entry_reason = "blocked_by_size_cap" ] >>,
                     NoText, None, FALSE, FALSE)
        ELSE Outcome(b1, << fill_position_fields(row2, b1.tracked[ccxt_symbol]) >>,
                     Text(None, ms.reason), None, FALSE, FALSE)

\* main.py 779-868: no position is tracked
live_entry(b, row0, bar, ms, halted_reason, dm, kill, halt, env) ==
    LET remaining == cooldown_remaining_bars(b, ccxt_symbol, bar.ts, ExpectedStepS,
                                             CooldownBars)
        row1 == [ row0 EXCEPT !.cooldown_remaining_bars = Some(remaining) ]
    IN  IF remaining > 0 THEN Outcome(b, << row1 >>, NoText, None, FALSE, FALSE)
        ELSE live_enter(b, row1, evaluate_entry(bar.confidence, ms, ""), bar, ms,
                        halted_reason, dm, kill, halt, env)

\* main.py 552-630: a cycle that skips trading writes a blank row with the tag
live_skip(b, ts_ms, bar_high, bar_low, why, mr) ==
    Outcome(b,
            << fill_position_fields(
                 [ blank_decision_row(ts_ms, ts_ms, bar_high, bar_low) EXCEPT
                     !.market_reason = Text(why, mr) ],
                 get_tracked_position(b, ccxt_symbol)) >>,
            Text(None, mr), None, FALSE, FALSE)

\* main.py 632-871: the window passed the checks; bar is its latest row, ms the
\* market state, nd the watchdog's verdict
live_trade(b, nd, bar, ms, halted_reason, kill, halt, env) ==
    LET row0 == fill_position_fields(
                    [ decision_row(bar.ts, bar.ts, bar.high, bar.low, ms) EXCEPT
                        !.market_reason = Text(nd.why, ms.reason) ],
                    get_tracked_position(b, ccxt_symbol))
    IN  [ out |-> IF IsSome(get_tracked_position(b, ccxt_symbol))
                  THEN live_manage(b, row0, bar, ms, halted_reason, nd.degraded)
                  ELSE live_entry(b, row0, bar, ms, halted_reason, nd.degraded, kill, halt, env),
          degraded_mode |-> nd.degraded, degraded_why |-> nd.why ]

\* main.py 547-871: combined is the window of closed bars
live_cycle_on(b, nd, dm, dw, combined, kill, halt, env) ==
    LET rows == Len(combined)
        now_ts_ms == IF rows > 0 THEN Last(combined).ts ELSE 0
        bar_high == IF rows > 0 THEN Last(combined).high ELSE 0
        bar_low == IF rows > 0 THEN Last(combined).low ELSE 0
    IN  IF rows < MinBars
        THEN [ out |-> live_skip(b, now_ts_ms, bar_high, bar_low, None, "not_enough_bars"),
               degraded_mode |-> dm, degraded_why |-> dw ]
        ELSE IF ~cadence_ok(combined, ExpectedStepS)
        THEN [ out |-> live_skip(b, now_ts_ms, bar_high, bar_low, None, "cadence_failed"),
               degraded_mode |-> dm, degraded_why |-> dw ]
        ELSE IF ~Last(combined).valid
        THEN [ out |-> live_skip(b, now_ts_ms, bar_high, bar_low, nd.why, "features_invalid"),
               degraded_mode |-> nd.degraded, degraded_why |-> nd.why ]
        ELSE live_trade(b, nd, Last(combined), determine_market_state(combined, MinBars),
                        live_halted_reason(kill, halt), kill, halt, env)

\* main.py 481-871 for the store's bars: the outcome and the degraded flag
live_cycle(b, recent, dm, dw, store, kill, halt, env) ==
    live_cycle_on(b, is_degraded(recent, TRUE), dm, dw,
                  drop_in_progress_last_bar_if_safe(Tail_n(store, live_tail_n), MinBars),
                  kill, halt, env)

\* engine.py 414-448: t is the broker and the row after the trailing step,
\* exit_sig the exit signal
replay_close(t, bar, exit_sig) ==
    LET position == Get(t.broker.tracked[ccxt_symbol])
        row2 == [ t.row EXCEPT !.exit_should_exit = Some(exit_sig.should_exit),
                               !.exit_reason = exit_sig.reason ]
        exit_reason == IF exit_sig.reason # "" THEN exit_sig.reason ELSE "exit"
        exit_price == replay_exit_price(position, exit_reason, bar.close, bar.open)
        exit_ts_ms == IF bar.ts > 0 THEN Some(bar.ts) ELSE None
    IN  IF exit_sig.should_exit
        THEN Outcome(realize_and_close(t.broker, ccxt_symbol, exit_price, exit_reason,
                                       exit_ts_ms),
                     << row2 >>, NoText,
                     Some(trade_of_close(t.broker, ccxt_symbol, exit_price, exit_reason,
                                         exit_ts_ms)),
                     TRUE, TRUE)
        ELSE Outcome(t.broker, << row2 >>, NoText, None, TRUE, TRUE)

\* engine.py 408-412: the exit rules on the position after the trailing step
replay_exit(t, bar, ms) ==
    replay_close(t, bar,
                 evaluate_exit(Get(t.broker.tracked[ccxt_symbol]), bar.close, bar.ts, ms,
                               ExpectedStepS))

\* engine.py 379-448: a position is tracked and is not pending
replay_manage(b, row0, bar, ms) ==
    replay_exit(trail_step(b,
                           [ row0 EXCEPT
                               !.unrealized_pnl_usd =
                                   Some(get_unrealized_pnl(b, ccxt_symbol, bar.close)),
                               !.unrealized_pnl_pct =
                                   Some(get_unrealized_pnl_pct(b, ccxt_symbol, bar.close)) ],
                           bar),
                bar, ms)

\* engine.py 466-507: the cooldown is over; entry_sig is the entry signal, i
\* the bar's index in all_bars
replay_enter(b, row1, entry_sig, bar, all_bars, i) ==
    LET row2 == [ row1 EXCEPT !.entry_should_enter = Some(entry_sig.should_enter),
                              !.entry_side = entry_sig.side,
                              !.entry_confidence = Some(entry_sig.confidence),
                              !.entry_reason = entry_sig.reason ]
        size == Min(size_position, MaxOrderSize)
        entry_ts_ms == IF i + 1 <= Len(all_bars) /\ all_bars[i + 1].ts > 0
                       THEN all_bars[i + 1].ts
                       ELSE bar.ts + ExpectedStepS * 1000
        stop_price == compute_initial_stop(entry_sig.side, bar.close, bar.atr)
        b1 == open_position(b, ccxt_symbol, entry_sig.side, size, bar.close, entry_ts_ms,
                            Some(stop_price),
                            Some(IF entry_sig.side = "LONG" THEN bar.high ELSE bar.low))
    IN  IF ~entry_sig.should_enter
        THEN Outcome(b, << row2 >>, NoText, None, FALSE, FALSE)
        ELSE Outcome(b1, << fill_position_fields(row2, b1.tracked[ccxt_symbol]) >>,
                     NoText, None, FALSE, FALSE)

\* engine.py 453-507: no position is tracked
replay_entry(b, row0, bar, ms, all_bars, i) ==
    LET remaining == cooldown_remaining_bars(b, ccxt_symbol, bar.ts, ExpectedStepS,
                                             CooldownBars)
        row1 == [ row0 EXCEPT !.cooldown_remaining_bars = Some(remaining) ]
    IN  IF remaining > 0 THEN Outcome(b, << row1 >>, NoText, None, FALSE, FALSE)
        ELSE replay_enter(b, row1, evaluate_entry(bar.confidence, ms, ""), bar, all_bars, i)

\* engine.py 292-511: the window passed the checks; bar is its latest row, ms
\* the market state
replay_trade(b, bar, ms, all_bars, i) ==
    LET position == get_tracked_position(b, ccxt_symbol)
        row0 == fill_position_fields(decision_row(bar.ts, bar.ts, bar.high, bar.low, ms),
                                     position)
        pending_entry == /\ IsSome(position)
                         /\ bar.ts > 0
                         /\ bar.ts < Get(position).entry_ts_ms
    IN  IF pending_entry
        THEN Outcome(b, << row0 >>, NoText, None, FALSE, FALSE)
        ELSE IF IsSome(position)
        THEN replay_manage(b, row0, bar, ms)
        ELSE replay_entry(b, row0, bar, ms, all_bars, i)

\* engine.py 280-511: market_data is the window ending at bar i
replay_on(b, market_data, all_bars, i) ==
    IF Len(market_data) < MinBars
    THEN Outcome(b, << >>, NoText, None, FALSE, FALSE)
    ELSE IF ~Last(market_data).valid
    THEN Outcome(b, << >>, NoText, None, FALSE, FALSE)
    ELSE replay_trade(b, Last(market_data), determine_market_state(market_data, MinBars),
                      all_bars, i)

\* engine.py 278-511 for bar i (from 1) of all_bars, without a trading start boundary
replay_step(b, all_bars, i) ==
    replay_on(b, SubSeq(all_bars, Max(1, i - replay_tail_n + 1), i), all_bars, i)

\* engine.py 225
warmup_bars == Max(MinBars, 50) + 5

\* engine.py 219-223: the index (from 1) of the first bar at or after the
\* boundary; 0 when there is none and run_backtest raises
first_trade_i(all_bars, trade_start_ts_ms) ==
    IF \A i \in 1..Len(all_bars) : all_bars[i].ts < trade_start_ts_ms THEN 0
    ELSE CHOOSE i \in 1..Len(all_bars) :
             /\ all_bars[i].ts >= trade_start_ts_ms
             /\ \A j \in 1..(i - 1) : all_bars[j].ts < trade_start_ts_ms

\* engine.py 217-228: the bars kept when a boundary is set, the warmup prefix
\* before the boundary included
bars_from_warmup(all_bars, trade_start_ts_ms) ==
    IF ~IsSome(trade_start_ts_ms) THEN all_bars
    ELSE SubSeq(all_bars,
                Max(0, first_trade_i(all_bars, Get(trade_start_ts_ms)) - 1 - warmup_bars) + 1,
                Len(all_bars))

\* engine.py 308-311
allow_trading(trade_start_ts_ms, now_ts_ms) ==
    ~( IsSome(trade_start_ts_ms) /\ now_ts_ms > 0 /\ now_ts_ms < Get(trade_start_ts_ms) )

\* engine.py 348-355: the forced flat snapshot of a bar before the boundary
replay_held_flat(b, bar, ms) ==
    Outcome(b,
            << fill_position_fields(decision_row(bar.ts, bar.ts, bar.high, bar.low, ms),
                                    None) >>,
            NoText, None, FALSE, FALSE)

\* engine.py 280-511 with the trading start boundary (None: not set)
replay_on_from(b, market_data, all_bars, i, trade_start_ts_ms) ==
    IF Len(market_data) < MinBars
    THEN Outcome(b, << >>, NoText, None, FALSE, FALSE)
    ELSE IF ~Last(market_data).valid
    THEN Outcome(b, << >>, NoText, None, FALSE, FALSE)
    ELSE IF ~allow_trading(trade_start_ts_ms, Last(market_data).ts)
    THEN replay_held_flat(b, Last(market_data),
                          determine_market_state(market_data, MinBars))
    ELSE replay_trade(b, Last(market_data), determine_market_state(market_data, MinBars),
                      all_bars, i)

\* engine.py 278-511 for bar i (from 1) of all_bars
replay_step_from(b, all_bars, i, trade_start_ts_ms) ==
    replay_on_from(b, SubSeq(all_bars, Max(1, i - replay_tail_n + 1), i), all_bars, i,
                   trade_start_ts_ms)

\* the rows of a cycle (none or one) handed to the writer
write_attempted(file, last_decision_ts_ms, rows) ==
    IF rows = << >>
    THEN [ file |-> file, last |-> last_decision_ts_ms, appended |-> FALSE ]
    ELSE write_decision_once_per_bar(file, last_decision_ts_ms, rows[1])

-----------------------------------------------------------------------------
(* State                                                                   *)

VARIABLES
    broker,       \* the live process's PaperBroker (main.py: inner)
    kill_switch,  \* the KILL_SWITCH_FILE exists
    halt_orders,  \* the HALT_ORDERS_FILE is configured and exists
    last_call,    \* the last broker call made: its name, outcome and inputs
    emitted,      \* the stops compute_trailing_stop_update has emitted, in order
    bars,         \* the bar store: the closed bars, oldest first
    ledger,       \* the live decisions file, in file order
    last_decision_ts_ms,  \* the live writer's watermark (None before any write)
    recent_reasons,       \* the watchdog's deque of tags
    degraded_mode,
    degraded_why,         \* None for ""
    trades,       \* the live trades file
    polls,        \* live cycles run since the newest bar arrived
    seeded,       \* the watermarks seeded by the restarts so far, in order (0: empty ledger)
    cycle,        \* the last step of a driver: what it processed and attempted
    running,      \* the live process is inside its while True loop
    loop_locals,  \* what the last live iteration left in now_ts_ms, now_iso, bar_high,
                  \* bar_low and position (None: the names are not bound yet)
    bt_i,         \* the bars the replay loop has iterated over (0: not run)
    bt_broker,    \* the replay's PaperBroker
    bt_ledger,    \* the replay's decisions file
    bt_last_decision_ts_ms,
    bt_trades,    \* the replay's trades file
    bt_steps,     \* what each iteration of the replay loop did, in order
    report        \* what the equivalence verifier printed and how it exited

liveVars == << ledger, last_decision_ts_ms, recent_reasons, degraded_mode, degraded_why,
               trades >>

replayVars == << bt_i, bt_broker, bt_ledger, bt_last_decision_ts_ms, bt_trades, bt_steps >>

driverVars == << bars, polls, seeded, cycle, running, loop_locals, liveVars, replayVars >>

\* what a call on the paper broker leaves alone
nonBrokerVars == << kill_switch, halt_orders, emitted, driverVars, report >>

\* what a call on the guarded broker, or a change of the guard files, leaves alone
nonGuardVars == << emitted, driverVars, report >>

\* what a step of a driver leaves alone
nonDriverVars == << kill_switch, halt_orders, last_call, emitted, report >>

vars == << broker, kill_switch, halt_orders, last_call, emitted, driverVars, report >>

\* op: the method; raised: it raised; reason: the guard's block reason;
\* valid: size and price were positive (open) or a position was tracked (close);
\* ts: the entry_ts_ms or exit_ts_ms passed
NoCall == [ op |-> "none", raised |-> FALSE, reason |-> "", valid |-> FALSE, ts |-> None ]

Call(op, raised, reason, valid, ts) ==
    [ op |-> op, raised |-> raised, reason |-> reason, valid |-> valid, ts |-> ts ]

\* the verifier has not run
NoReport == [ stage |-> "none" ]

\* driver: who stepped; ts: the bar timestamp processed; rows: the rows handed
\* to the writer; appended: the writer appended; pending: a position with
\* entry_ts_ms > ts was tracked when the step began
Cycle(driver, ts, rows, appended, trailed, exit_evaluated, pending) ==
    [ driver |-> driver, ts |-> ts, rows |-> rows, appended |-> appended,
      trailed |-> trailed, exit_evaluated |-> exit_evaluated, pending |-> pending ]

NoCycle == Cycle("none", 0, << >>, FALSE, FALSE, FALSE, FALSE)

\* the store before the first live cycle: MinBars - 1 quiet bars
WarmupBars == [ i \in 1..(MinBars - 1) |-> QuietBar(i * step_ms) ]

\* the drivers before they start
IdleDriver ==
    /\ bars = WarmupBars
    /\ ledger = << >>
    /\ last_decision_ts_ms = None
    /\ recent_reasons = << >>
    /\ degraded_mode = FALSE
    /\ degraded_why = None
    /\ trades = << >>
    /\ polls = 0
    /\ seeded = << >>
    /\ cycle = NoCycle
    /\ running = TRUE
    /\ loop_locals = None
    /\ bt_i = 0
    /\ bt_broker = PaperBroker(FeeBps, SlippageBps)
    /\ bt_ledger = << >>
    /\ bt_last_decision_ts_ms = None
    /\ bt_trades = << >>
    /\ bt_steps = << >>
    /\ report = NoReport

-----------------------------------------------------------------------------
(* Inputs of the broker specifications                                     *)

\* sizes and entry prices passed to open_position, invalid ones included
Sizes == {-1, 0, 1}

OpenPrices == 0..MaxOpenPrice

ExitPrices == 1..MaxOpenPrice

OptStops == { None } \cup { Some(p) : p \in 1..MaxOpenPrice }

OptTicks == { None } \cup { Some(t) : t \in Ticks }

\* what Guardrails.from_env() can return besides the two files, with whether
\* the wrapper requires arming: one case per outcome of the arming gate
GuardEnvs ==
    { e \in [ require_armed : BOOLEAN, armed : BOOLEAN, dry_run : BOOLEAN,
              max_order_usd : {0, 1}, max_position_usd : {0, 1} ] :
        /\ ~e.require_armed => (~e.armed /\ ~e.dry_run)
        /\ ~(e.max_order_usd = 1 /\ e.max_position_usd = 1) }

\* PaperBroker.open_position, called without the guard (as the replay does)
PaperOpen ==
    \E side \in Sides, size \in Sizes, price \in OpenPrices, ts \in Ticks,
       stop \in OptStops, anchor \in OptStops :
        /\ broker' = open_position(broker, ccxt_symbol, side, size, price, ts,
                                   stop, anchor)
        /\ last_call' = Call("paper_open", open_position_raises(broker, ccxt_symbol, size),
                             "", size > 0 /\ price > 0, None)
        /\ UNCHANGED nonBrokerVars

PaperUpdateStop ==
    \E ns \in 1..MaxOpenPrice, na \in OptStops :
        /\ broker' = update_stop(broker, ccxt_symbol, ns, na)
        /\ last_call' = Call("update_stop", FALSE, "", TRUE, None)
        /\ UNCHANGED nonBrokerVars

PaperClose ==
    \E price \in ExitPrices, ts \in OptTicks :
        /\ broker.trades_closed < MaxCloses
        /\ broker' = realize_and_close(broker, ccxt_symbol, price, "exit", ts)
        /\ last_call' = Call("close", FALSE, "", IsSome(broker.tracked[ccxt_symbol]), ts)
        /\ UNCHANGED nonBrokerVars

\* GuardedBroker.open_position; the stop and the anchor pass through
GuardedOpen ==
    \E side \in Sides, size \in Sizes, price \in OpenPrices, ts \in Ticks,
       e \in GuardEnvs :
        LET g == Guardrails(kill_switch, halt_orders, e.armed, e.dry_run,
                            e.max_order_usd, e.max_position_usd)
        IN  /\ broker' = guarded_open_position(broker, e.require_armed, g, ccxt_symbol,
                                               side, size, price, ts, None, None)
            /\ last_call' = Call("guarded_open",
                                 guarded_open_position_raises(broker, e.require_armed, g,
                                                              ccxt_symbol, side, size, price),
                                 block_entry_reason(broker, e.require_armed, g,
                                                    ccxt_symbol, side, size, price),
                                 size > 0 /\ price > 0, None)
            /\ UNCHANGED << kill_switch, halt_orders >>
            /\ UNCHANGED nonGuardVars

\* GuardedBroker.realize_and_close
GuardedClose ==
    \E price \in ExitPrices, ts \in OptTicks :
        /\ broker.trades_closed < MaxCloses
        /\ broker' = guarded_realize_and_close(broker, ccxt_symbol, price, "exit", ts)
        /\ last_call' = Call("guarded_close", FALSE, "", IsSome(broker.tracked[ccxt_symbol]), ts)
        /\ UNCHANGED << kill_switch, halt_orders >>
        /\ UNCHANGED nonGuardVars

\* an operator creates or removes the kill-switch or the halt-orders file
SetFiles ==
    /\ \E k \in BOOLEAN, h \in BOOLEAN :
          /\ << k, h >> # << kill_switch, halt_orders >>
          /\ kill_switch' = k
          /\ halt_orders' = h
    /\ last_call' = Call("set_files", FALSE, "", TRUE, None)
    /\ UNCHANGED broker
    /\ UNCHANGED nonGuardVars

-----------------------------------------------------------------------------
(* SpecPaper: any sequence of calls on a PaperBroker                       *)

PaperInit ==
    /\ broker = PaperBroker(FeeBps, SlippageBps)
    /\ last_call = NoCall
    /\ kill_switch = FALSE
    /\ halt_orders = FALSE
    /\ emitted = << >>
    /\ IdleDriver

PaperNext ==
    \/ PaperOpen
    \/ PaperUpdateStop
    \/ PaperClose

SpecPaper == PaperInit /\ [][PaperNext]_vars

-----------------------------------------------------------------------------
(* SpecGuard: any sequence of calls on a GuardedBroker around a            *)
(* PaperBroker while the guard files come and go                           *)

GuardInit ==
    /\ broker = PaperBroker(FeeBps, SlippageBps)
    /\ last_call = NoCall
    /\ kill_switch \in BOOLEAN
    /\ halt_orders \in BOOLEAN
    /\ emitted = << >>
    /\ IdleDriver

GuardNext ==
    \/ GuardedOpen
    \/ GuardedClose
    \/ SetFiles

SpecGuard == GuardInit /\ [][GuardNext]_vars


-----------------------------------------------------------------------------
(* SpecGuardOrder: entries through the guard under every combination of    *)
(* its conditions                                                          *)

\* the largest cap of the environment (0: no cap)
MaxCapUsd == 1

\* what Guardrails.from_env() can return besides the two files, with whether
\* the wrapper requires arming
AllGuardEnvs ==
    [ require_armed : BOOLEAN, armed : BOOLEAN, dry_run : BOOLEAN,
      max_order_usd : 0..MaxCapUsd, max_position_usd : 0..MaxCapUsd ]

GuardCall(e, kill, halt, size, price, existing_qty, reason) ==
    [ op |-> "guarded_open", env |-> e, kill |-> kill, halt |-> halt, size |-> size,
      price |-> price, existing_qty |-> existing_qty, reason |-> reason ]

\* GuardedBroker.open_position with the environment e
GuardedOpenIn(e, side, size, price) ==
    /\ broker' = guarded_open_position(broker, e.require_armed,
                                       Guardrails(kill_switch, halt_orders, e.armed,
                                                  e.dry_run, e.max_order_usd,
                                                  e.max_position_usd),
                                       ccxt_symbol, side, size, price, TickMs, None, None)
    /\ last_call' =
          GuardCall(e, kill_switch, halt_orders, size, price,
                    IF IsSome(broker.tracked[ccxt_symbol])
                    THEN Get(broker.tracked[ccxt_symbol]).qty ELSE 0,
                    block_entry_reason(broker, e.require_armed,
                                       Guardrails(kill_switch, halt_orders, e.armed,
                                                  e.dry_run, e.max_order_usd,
                                                  e.max_position_usd),
                                       ccxt_symbol, side, size, price))
    /\ UNCHANGED << kill_switch, halt_orders >>
    /\ UNCHANGED nonGuardVars

GuardedOpenAny ==
    \E e \in AllGuardEnvs, side \in Sides, size \in Sizes, price \in OpenPrices :
        GuardedOpenIn(e, side, size, price)

GuardOrderNext == GuardedOpenAny

SpecGuardOrder == GuardInit /\ [][GuardOrderNext]_vars

-----------------------------------------------------------------------------
(* SpecTrail: one open position taken through a sequence of bars by the    *)
(* driver's trailing-stop step                                             *)

OptPrices == { None } \cup { Some(p) : p \in Prices }

TrailInit ==
    /\ \E side \in Sides, price \in Prices, stop \in OptPrices, anchor \in OptPrices :
          broker = open_position(PaperBroker(FeeBps, SlippageBps), ccxt_symbol, side,
                                 size_position, price, 0, stop, anchor)
    /\ last_call = NoCall
    /\ kill_switch = FALSE
    /\ halt_orders = FALSE
    /\ emitted = << >>
    /\ IdleDriver

TrailStep ==
    \E close \in Prices, high \in Prices, low \in Prices, atr \in Atrs :
        LET position == Get(broker.tracked[ccxt_symbol])
            r == compute_trailing_stop_update(position, close, Some(high), Some(low),
                                              atr, TRAIL_ATR_MULT)
        IN  /\ Len(emitted) < MaxTrailSteps
            /\ broker' = trail_and_store(broker, ccxt_symbol, close, high, low, atr)
            /\ emitted' = IF IsSome(r.new_stop) THEN Append(emitted, Get(r.new_stop))
                                                ELSE emitted
            /\ last_call' = Call("trail", FALSE, r.reason, IsSome(r.new_stop), None)
            /\ UNCHANGED << kill_switch, halt_orders, driverVars, report >>

TrailNext == TrailStep

SpecTrail == TrailInit /\ [][TrailNext]_vars

-----------------------------------------------------------------------------
(* SpecStops: a position entered at a round price with its initial stop,   *)
(* then trailed through bars with round highs and lows                     *)

StopCall(op, side, prev_stop, prev_anchor, high, low, atr, r) ==
    [ op |-> op, side |-> side, prev_stop |-> prev_stop, prev_anchor |-> prev_anchor,
      high |-> high, low |-> low, atr |-> atr,
      new_stop |-> r.new_stop, new_anchor |-> r.new_anchor ]

\* the entry of the drivers: the stop from compute_initial_stop, the anchor at
\* the entry price (main.py 835-851)
StopsInit ==
    /\ \E side \in Sides, atr \in RoundAtrs :
          /\ broker = open_position(PaperBroker(FeeBps, SlippageBps), ccxt_symbol, side,
                                    size_position, RoundEntry, step_ms,
                                    Some(compute_initial_stop(side, RoundEntry, atr)),
                                    Some(RoundEntry))
          /\ last_call = StopCall("initial_stop", side, None, None, RoundEntry, RoundEntry,
                                  atr,
                                  [ new_stop |-> Some(compute_initial_stop(side, RoundEntry,
                                                                           atr)),
                                    new_anchor |-> Some(RoundEntry) ])
    /\ kill_switch = FALSE
    /\ halt_orders = FALSE
    /\ emitted = << >>
    /\ IdleDriver

\* the trailing-stop step of the drivers on a bar with a round high and low
RoundTrailStep ==
    \E high \in RoundPrices, low \in RoundPrices, atr \in RoundAtrs :
        /\ low <= high
        /\ Len(emitted) < MaxTrailSteps
        /\ broker' = trail_and_store(broker, ccxt_symbol, low, high, low, atr)
        /\ emitted' = Append(emitted, Get(broker'.tracked[ccxt_symbol]).stop_price)
        /\ last_call' =
              StopCall("trail", Get(broker.tracked[ccxt_symbol]).side,
                       Get(broker.tracked[ccxt_symbol]).stop_price,
                       Get(broker.tracked[ccxt_symbol]).trailing_anchor_price,
                       high, low, atr,
                       compute_trailing_stop_update(Get(broker.tracked[ccxt_symbol]), low,
                                                    Some(high), Some(low), atr,
                                                    TRAIL_ATR_MULT))
        /\ UNCHANGED << kill_switch, halt_orders, driverVars, report >>

StopsNext == RoundTrailStep

SpecStops == StopsInit /\ [][StopsNext]_vars

-----------------------------------------------------------------------------
(* SpecStopFill: the live driver and the replay hold the same position and *)
(* manage it on the same bars                                              *)

\* the bars a managed position is held over
MaxHeldBars == 2

\* both brokers after the same entry
StopFillInit ==
    /\ \E side \in Sides, price \in Prices, stop \in Prices :
          /\ broker = open_position(PaperBroker(FeeBps, SlippageBps), ccxt_symbol, side,
                                    size_position, price, step_ms, Some(stop), Some(price))
          /\ bt_broker = broker
    /\ last_call = NoCall
    /\ kill_switch = FALSE
    /\ halt_orders = FALSE
    /\ emitted = << >>
    /\ bars = WarmupBars
    /\ ledger = << >>
    /\ last_decision_ts_ms = None
    /\ recent_reasons = << >>
    /\ degraded_mode = FALSE
    /\ degraded_why = None
    /\ trades = << >>
    /\ polls = 0
    /\ seeded = << >>
    /\ cycle = NoCycle
    /\ running = TRUE
    /\ loop_locals = None
    /\ bt_i = 0
    /\ bt_ledger = << >>
    /\ bt_last_decision_ts_ms = None
    /\ bt_trades = << >>
    /\ bt_steps = << >>
    /\ report = NoReport

\* the state after both drivers managed their position on bar: lo is the
\* outcome of the live driver's branch, ro of the replay's
ManagedBoth(bar, lo, ro) ==
    /\ broker' = lo.broker
    /\ bt_broker' = ro.broker
    /\ trades' = IF IsSome(lo.trade) THEN Append(trades, Get(lo.trade)) ELSE trades
    /\ bt_trades' = IF IsSome(ro.trade) THEN Append(bt_trades, Get(ro.trade)) ELSE bt_trades
    /\ cycle' = Cycle("live", bar.ts, lo.rows, TRUE, lo.trailed, lo.exit_evaluated, FALSE)
    /\ bt_steps' = Append(bt_steps,
                          Cycle("replay", bar.ts, ro.rows, TRUE, ro.trailed,
                                ro.exit_evaluated, FALSE))
    /\ last_call' = [ op |-> "manage", bar |-> bar ]
    /\ UNCHANGED << kill_switch, halt_orders, emitted, bars, ledger, last_decision_ts_ms,
                    recent_reasons, degraded_mode, degraded_why, polls, seeded, running,
                    loop_locals, bt_i, bt_ledger, bt_last_decision_ts_ms, report >>

\* the manage branch of both drivers (main.py 705-774, engine.py 379-448) on
\* bar, neither halted nor degraded, in a tradable market
ManageOn(bar, ms) ==
    ManagedBoth(bar,
                live_manage(broker,
                            fill_position_fields(decision_row(bar.ts, bar.ts, bar.high,
                                                              bar.low, ms),
                                                 broker.tracked[ccxt_symbol]),
                            bar, ms, "", FALSE),
                replay_manage(bt_broker,
                              fill_position_fields(decision_row(bar.ts, bar.ts, bar.high,
                                                                bar.low, ms),
                                                   bt_broker.tracked[ccxt_symbol]),
                              bar, ms))

\* the next bar, with any open and close between its low and its high
ManageBoth ==
    \E open \in Prices, close \in Prices, low \in Prices, high \in Prices :
        /\ IsSome(broker.tracked[ccxt_symbol])
        /\ IsSome(bt_broker.tracked[ccxt_symbol])
        /\ Len(bt_steps) < MaxHeldBars
        /\ low <= open /\ open <= high
        /\ low <= close /\ close <= high
        /\ ManageOn(Bar(step_ms + (Len(bt_steps) + 1) * step_ms, open, high, low, close,
                        BarAtr, 0, Some(HighConfidence), TRUE),
                    MarketState(TRUE, "flat", "normal", TRUE, TRUE, "ok"))

StopFillNext == ManageBoth

SpecStopFill == StopFillInit /\ [][StopFillNext]_vars

-----------------------------------------------------------------------------
(* SpecExit: evaluate_exit called on an open position at bars around the   *)
(* time stop                                                               *)

\* the bars held at the calls: one short of MAX_HOLD_BARS and from it on
HeldBars == (MAX_HOLD_BARS - 1)..(MAX_HOLD_BARS + MaxOverHeld)

ExitCall(close, now_ts_ms, tradable, sig) ==
    [ op |-> "evaluate_exit", close |-> close, now_ts_ms |-> now_ts_ms,
      tradable |-> tradable, should_exit |-> sig.should_exit, reason |-> sig.reason ]

ExitInit ==
    /\ \E side \in Sides, price \in Prices, stop \in OptPrices :
          broker = open_position(PaperBroker(FeeBps, SlippageBps), ccxt_symbol, side,
                                 size_position, price, step_ms, stop, None)
    /\ last_call = NoCall
    /\ kill_switch = FALSE
    /\ halt_orders = FALSE
    /\ emitted = << >>
    /\ IdleDriver

\* a call of evaluate_exit on the tracked position
EvaluateExit ==
    \E close \in Prices, held \in HeldBars, tradable \in BOOLEAN :
        /\ last_call' =
              ExitCall(close, step_ms + held * step_ms, tradable,
                       evaluate_exit(Get(broker.tracked[ccxt_symbol]), close,
                                     step_ms + held * step_ms,
                                     IF tradable
                                     THEN MarketState(TRUE, "flat", "normal", TRUE, TRUE, "ok")
                                     ELSE MarketState(FALSE, "flat", "normal", FALSE, TRUE,
                                                      "cadence_not_ok"),
                                     ExpectedStepS))
        /\ UNCHANGED << broker, kill_switch, halt_orders, emitted, driverVars, report >>

ExitNext == EvaluateExit

SpecExit == ExitInit /\ [][ExitNext]_vars

(* SpecEntryBar: evaluate_exit on the bars around the entry bar              *)

\* bars before, at and after the entry bar of ExitInit (entry_ts_ms = step_ms)
MaxBarsAfterEntry == 2

EntryBarTs == { k * step_ms : k \in 0..(1 + MaxBarsAfterEntry) }

\* a call of evaluate_exit with the latest row at now_ts_ms
EvaluateExitAt(close, now_ts_ms, market_state) ==
    /\ last_call' =
          ExitCall(close, now_ts_ms, market_state.tradable,
                   evaluate_exit(Get(broker.tracked[ccxt_symbol]), close, now_ts_ms,
                                 market_state, ExpectedStepS))
    /\ UNCHANGED << broker, kill_switch, halt_orders, emitted, driverVars, report >>

EvaluateExitNearEntry ==
    \E close \in Prices, now_ts_ms \in EntryBarTs, tradable \in BOOLEAN :
        EvaluateExitAt(close, now_ts_ms,
                       IF tradable
                       THEN MarketState(TRUE, "flat", "normal", TRUE, TRUE, "ok")
                       ELSE MarketState(FALSE, "flat", "normal", FALSE, TRUE,
                                        "cadence_not_ok"))

EntryBarNext == EvaluateExitNearEntry

SpecEntryBar == ExitInit /\ [][EntryBarNext]_vars

(* SpecEntryRule: evaluate_entry over market states, confidences and the    *)
(* FORCE_SIDE environment variable                                          *)

EntryConfidences == { None } \cup { Some(c) : c \in { 0, 59, 60, 61, 100 } }

EntryTrends == { "up", "down", "flat" }

\* FORCE_SIDE after strip and upper: unset, a side, or any other text
ForceSideEnvs == { "", "LONG", "SHORT", "BOTH" }

EntryCall(confidence, market_state, force_side, sig) ==
    [ op |-> "evaluate_entry", confidence |-> confidence, tradable |-> market_state.tradable,
      trend |-> market_state.trend, force_side |-> force_side,
      should_enter |-> sig.should_enter, side |-> sig.side, reason |-> sig.reason ]

EntryRuleInit ==
    /\ broker = PaperBroker(FeeBps, SlippageBps)
    /\ last_call = NoCall
    /\ kill_switch = FALSE
    /\ halt_orders = FALSE
    /\ emitted = << >>
    /\ IdleDriver

\* a call of evaluate_entry
EvaluateEntryOn(confidence, market_state, force_side) ==
    /\ last_call' = EntryCall(confidence, market_state, force_side,
                              evaluate_entry(confidence, market_state, force_side))
    /\ UNCHANGED << broker, kill_switch, halt_orders, emitted, driverVars, report >>

EvaluateEntryAny ==
    \E confidence \in EntryConfidences, trend \in EntryTrends, tradable \in BOOLEAN,
       force_side \in ForceSideEnvs :
        EvaluateEntryOn(confidence,
                        IF tradable
                        THEN MarketState(TRUE, trend, "normal", TRUE, TRUE, "ok")
                        ELSE MarketState(FALSE, trend, "normal", FALSE, TRUE, "cadence_not_ok"),
                        force_side)

EntryRuleNext == EvaluateEntryAny

SpecEntryRule == EntryRuleInit /\ [][EntryRuleNext]_vars

(* SpecMarketState: determine_market_state over feature windows             *)

\* the longest window
MaxWindow == 4

\* the widest deviation of the median spacing that passes, in ms
CadenceTolMs == Max(CadenceTolAbsS * 1000, (ExpectedStepS * 1000 * CadenceTolPct) \div 100)

\* spacings of consecutive rows: the step, the step at the edge of the
\* tolerance, just past it, and a missing bar
Spacings == { step_ms, step_ms + CadenceTolMs, step_ms + CadenceTolMs + 1000, 2 * step_ms }

RECURSIVE SpacingSum(_, _)
SpacingSum(gaps, k) == IF k = 0 THEN 0 ELSE gaps[k] + SpacingSum(gaps, k - 1)

\* the window of n rows with the given spacings, ending in the row last_row
FeatureWindow(n, gaps, last_row) ==
    [ i \in 1..n |-> IF i = n THEN [ last_row EXCEPT !.ts = step_ms + SpacingSum(gaps, i - 1) ]
                     ELSE QuietBar(step_ms + SpacingSum(gaps, i - 1)) ]

FeatureWindows ==
    UNION { { FeatureWindow(n, gaps, last_row) :
                  gaps \in [1..(n - 1) -> Spacings], last_row \in BarsAt(0) } :
            n \in 1..MaxWindow }

MarketStateCall(min_bars, ms) ==
    [ op |-> "determine_market_state", min_bars |-> min_bars, state |-> ms ]

MarketStateInit ==
    /\ broker = PaperBroker(FeeBps, SlippageBps)
    /\ last_call = NoCall
    /\ kill_switch = FALSE
    /\ halt_orders = FALSE
    /\ emitted = << >>
    /\ bars \in FeatureWindows
    /\ ledger = << >>
    /\ last_decision_ts_ms = None
    /\ recent_reasons = << >>
    /\ degraded_mode = FALSE
    /\ degraded_why = None
    /\ trades = << >>
    /\ polls = 0
    /\ seeded = << >>
    /\ cycle = NoCycle
    /\ running = TRUE
    /\ loop_locals = None
    /\ bt_i = 0
    /\ bt_broker = PaperBroker(FeeBps, SlippageBps)
    /\ bt_ledger = << >>
    /\ bt_last_decision_ts_ms = None
    /\ bt_trades = << >>
    /\ bt_steps = << >>
    /\ report = NoReport

\* a call of determine_market_state on the window
DetermineMarketState ==
    \E min_bars \in { MinBars, MinBars + 1 } :
        /\ last_call' = MarketStateCall(min_bars, determine_market_state(bars, min_bars))
        /\ UNCHANGED << broker, kill_switch, halt_orders, emitted, driverVars, report >>

MarketStateNext == DetermineMarketState

SpecMarketState == MarketStateInit /\ [][MarketStateNext]_vars

(* SpecRealize: opens and closes on a PaperBroker, with the trade dicts     *)
(* realize_and_close returned kept in trades                                *)

\* closes of a tracked position in one run
MaxRealized == 2

RealizeCall(op, price, ts_ms, tracked) ==
    [ op |-> op, price |-> price, ts_ms |-> ts_ms, tracked |-> tracked ]

\* what a call on the broker whose trade dict is kept leaves alone
nonRealizeVars ==
    << kill_switch, halt_orders, emitted, bars, polls, seeded, cycle, running, loop_locals,
       ledger, last_decision_ts_ms, recent_reasons, degraded_mode, degraded_why,
       replayVars, report >>

\* PaperBroker.open_position with a valid size
RealizeOpen ==
    \E side \in Sides, price \in OpenPrices :
        /\ broker' = open_position(broker, ccxt_symbol, side, size_position, price, 0,
                                   None, None)
        /\ last_call' = RealizeCall("open_position", price, Some(0),
                                    IsSome(broker.tracked[ccxt_symbol]))
        /\ UNCHANGED trades
        /\ UNCHANGED nonRealizeVars

\* PaperBroker.realize_and_close, on a tracked position or on none
RealizeClose ==
    \E price \in ExitPrices, ts \in { None, Some(TickMs) } :
        /\ Len(trades) < MaxRealized
        /\ broker' = realize_and_close(broker, ccxt_symbol, price, "exit", ts)
        /\ trades' = IF IsSome(broker.tracked[ccxt_symbol])
                     THEN Append(trades, trade_of_close(broker, ccxt_symbol, price, "exit", ts))
                     ELSE trades
        /\ last_call' = RealizeCall("realize_and_close", price, ts,
                                    IsSome(broker.tracked[ccxt_symbol]))
        /\ UNCHANGED nonRealizeVars

RealizeNext ==
    \/ RealizeOpen
    \/ RealizeClose

SpecRealize == PaperInit /\ [][RealizeNext]_vars

-----------------------------------------------------------------------------
(* The drivers' steps                                                      *)

\* the feed closes a bar and the store receives it, up to max_bars bars
NewBarWithin(max_bars) ==
    /\ bt_i = 0
    /\ Len(bars) < max_bars
    /\ \E bar \in BarsAt(Last(bars).ts + step_ms) : bars' = Append(bars, bar)
    /\ polls' = 0
    /\ cycle' = Cycle("feed", 0, << >>, FALSE, FALSE, FALSE, FALSE)
    /\ UNCHANGED << broker, seeded, running, loop_locals, liveVars, replayVars >>
    /\ UNCHANGED nonDriverVars

NewBar == NewBarWithin(MaxBars)

\* the feed misses a bar: the next closed bar comes two steps after the last
GapBarWithin(max_bars) ==
    /\ bt_i = 0
    /\ Len(bars) < max_bars
    /\ bars' = Append(bars, QuietBar(Last(bars).ts + 2 * step_ms))
    /\ polls' = 0
    /\ cycle' = Cycle("feed", 0, << >>, FALSE, FALSE, FALSE, FALSE)
    /\ UNCHANGED << broker, seeded, running, loop_locals, liveVars, replayVars >>
    /\ UNCHANGED nonDriverVars

\* the feed while the driver's steps fail
FaultsNewBar == NewBarWithin(MaxFaultBars)

\* the timestamp of the bar a live cycle processes
live_now_ts_ms(store) ==
    Last(drop_in_progress_last_bar_if_safe(Tail_n(store, live_tail_n), MinBars)).ts

IsPending(b, now_ts_ms) ==
    /\ IsSome(b.tracked[ccxt_symbol])
    /\ now_ts_ms < Get(b.tracked[ccxt_symbol]).entry_ts_ms

\* the loop's locals after an iteration that wrote row: every path fills the
\* row from now_ts_ms, now_iso, bar_high, bar_low and position
locals_of(row) ==
    [ now_ts_ms |-> row.ts_ms, now_iso |-> row.timestamp,
      bar_high |-> row.bar_high, bar_low |-> row.bar_low,
      position_side |-> row.position_side, position_qty |-> row.position_qty,
      position_entry_price |-> row.position_entry_price,
      position_stop_price |-> row.position_stop_price,
      position_trailing_anchor_price |-> row.position_trailing_anchor_price ]

\* the classes of what can be raised in the loop's body, as the loop's except
\* clauses tell them apart
Raised == { "RuntimeError", "KeyboardInterrupt", "Exception" }

loop_breaks_on_error(exc) ==
    IF exc = "RuntimeError" THEN TRUE
    ELSE IF exc = "KeyboardInterrupt" THEN FALSE
    ELSE FALSE

\* the except clauses of the loop (main.py 873-898): TRUE when the loop goes
\* on to a next iteration after exc was raised in its body
loop_goes_on(exc) ==
    IF exc = "RuntimeError" THEN TRUE
    ELSE IF exc = "KeyboardInterrupt" THEN FALSE
    ELSE TRUE

\* the state after a live cycle with outcome c and write result w; driver
\* names the kind of cycle in the history, goes_on tells whether the loop
\* goes on to a next iteration
LiveCommitAs(driver, goes_on, c, w) ==
    /\ bt_i = 0
    /\ running
    /\ running' = goes_on
    /\ polls < MaxPolls
    /\ broker' = c.out.broker
    /\ ledger' = w.file
    /\ last_decision_ts_ms' = w.last
    /\ recent_reasons' = IF c.out.tag # NoText
                         THEN deque_append(recent_reasons, c.out.tag)
                         ELSE recent_reasons
    /\ degraded_mode' = c.degraded_mode
    /\ degraded_why' = c.degraded_why
    /\ trades' = IF IsSome(c.out.trade) THEN Append(trades, Get(c.out.trade))
                                        ELSE trades
    /\ polls' = polls + 1
    /\ cycle' = Cycle(driver, live_now_ts_ms(bars), c.out.rows, w.appended,
                      c.out.trailed, c.out.exit_evaluated,
                      IsPending(broker, live_now_ts_ms(bars)))
    /\ loop_locals' = IF c.out.rows # << >> THEN Some(locals_of(c.out.rows[1]))
                                            ELSE loop_locals
    /\ UNCHANGED << bars, seeded, replayVars >>
    /\ UNCHANGED nonDriverVars

LiveCommit(c, w) == LiveCommitAs("live", TRUE, c, w)

\* the cycle's row goes to the writer
LiveWrite(c) == LiveCommit(c, write_attempted(ledger, last_decision_ts_ms, c.out.rows))

\* one iteration of the live loop (main.py 453-871)
LiveCycle ==
    LiveWrite(live_cycle(broker, recent_reasons, degraded_mode, degraded_why, bars,
                         kill_switch, halt_orders, PaperEnv))

\* the live process dies and is started again (main.py 376-411): a new
\* PaperBroker, the watermark and the watchdog window seeded from the ledger
RestartWithin(max_restarts) ==
    LET last == read_last_ts_ms_from_decisions_csv(ledger)
    IN  /\ bt_i = 0
        /\ Len(seeded) < max_restarts
        /\ broker' = PaperBroker(FeeBps, SlippageBps)
        /\ last_decision_ts_ms' = last
        /\ recent_reasons' = read_tail_market_reasons(ledger, SeedTailN, SeedWindowK)
        /\ degraded_mode' = FALSE
        /\ degraded_why' = None
        /\ seeded' = Append(seeded, IF IsSome(last) THEN Get(last) ELSE 0)
        /\ cycle' = Cycle("restart", 0, << >>, FALSE, FALSE, FALSE, FALSE)
        /\ running' = TRUE
        /\ loop_locals' = None
        /\ UNCHANGED << bars, ledger, trades, polls, replayVars >>
        /\ UNCHANGED nonDriverVars

\* a restart of the live driver between its cycles
Restart == RestartWithin(1)

\* a restart between write attempts
LedgerRestart == RestartWithin(MaxRestarts)

\* a call of _write_decision_once_per_bar with a row of any ts_ms
WriteAttempt ==
    \E ts \in LedgerTs, mr \in { "fetch_failed", "features_invalid" } :
        LET row == [ blank_decision_row(ts, ts, 0, 0) EXCEPT
                       !.market_reason = Text(None, mr) ]
            w == write_decision_once_per_bar(ledger, last_decision_ts_ms, row)
        IN  /\ ledger' = w.file
            /\ last_decision_ts_ms' = w.last
            /\ cycle' = Cycle("write", ts, << row >>, w.appended, FALSE, FALSE, FALSE)
            /\ UNCHANGED << broker, bars, recent_reasons, degraded_mode, degraded_why,
                            trades, polls, seeded, running, loop_locals, replayVars >>
            /\ UNCHANGED nonDriverVars

\* the replay's state after an iteration with outcome o and write result w
replay_record(st, o, w, ts) ==
    [ broker |-> o.broker, file |-> w.file, last |-> w.last,
      trades |-> IF IsSome(o.trade) THEN Append(st.trades, Get(o.trade)) ELSE st.trades,
      steps |-> Append(st.steps,
                       Cycle("replay", ts, o.rows, w.appended, o.trailed,
                             o.exit_evaluated, IsPending(st.broker, ts))) ]

\* the iteration's row goes to the writer
replay_write(st, o, ts) == replay_record(st, o, write_attempted(st.file, st.last, o.rows), ts)

\* the replay's state after iteration i of its loop, from its state before
replay_iterate(st, all_bars, i) ==
    replay_write(st, replay_step(st.broker, all_bars, i), all_bars[i].ts)

\* iterations i..Len(all_bars) of the replay loop
RECURSIVE replay_loop(_, _, _)
replay_loop(st, all_bars, i) ==
    IF i > Len(all_bars) THEN st
    ELSE replay_loop(replay_iterate(st, all_bars, i), all_bars, i + 1)

\* the replay's state after iteration i of its loop when a boundary may be set
replay_iterate_from(st, all_bars, i, trade_start_ts_ms) ==
    replay_write(st, replay_step_from(st.broker, all_bars, i, trade_start_ts_ms),
                 all_bars[i].ts)

\* iterations i..Len(all_bars) of the replay loop when a boundary may be set
RECURSIVE replay_loop_from(_, _, _, _)
replay_loop_from(st, all_bars, i, trade_start_ts_ms) ==
    IF i > Len(all_bars) THEN st
    ELSE replay_loop_from(replay_iterate_from(st, all_bars, i, trade_start_ts_ms),
                          all_bars, i + 1, trade_start_ts_ms)

\* the state after a replay that ended in st
BacktestDone(st) ==
    /\ bt_i = 0
    /\ Len(bars) > 0
    /\ bt_i' = Len(bars)
    /\ bt_broker' = st.broker
    /\ bt_ledger' = st.file
    /\ bt_last_decision_ts_ms' = st.last
    /\ bt_trades' = st.trades
    /\ bt_steps' = st.steps
    /\ UNCHANGED << broker, bars, polls, seeded, cycle, running, loop_locals, liveVars >>
    /\ UNCHANGED nonDriverVars

\* run_backtest (engine.py 151-540) over the store as it is, once the live run
\* is over: a new PaperBroker, the watermark seeded from the replay's ledger
RunBacktest ==
    BacktestDone(replay_loop([ broker |-> PaperBroker(FeeBps, SlippageBps),
                               file |-> bt_ledger,
                               last |-> read_last_ts_ms_from_decisions_csv(bt_ledger),
                               trades |-> bt_trades, steps |-> << >> ],
                             bars, 1))

\* the state after a replay with START_TS_MS = trade_start_ts_ms ended in st
BacktestFromDone(trade_start_ts_ms, st) ==
    /\ bt_i = 0
    /\ Len(bars) > 0
    /\ first_trade_i(bars, trade_start_ts_ms) > 0
    /\ bt_i' = Len(bars)
    /\ bt_broker' = st.broker
    /\ bt_ledger' = st.file
    /\ bt_last_decision_ts_ms' = st.last
    /\ bt_trades' = st.trades
    /\ bt_steps' = st.steps
    /\ last_call' = [ op |-> "run_backtest", trade_start_ts_ms |-> trade_start_ts_ms ]
    /\ UNCHANGED << broker, bars, polls, seeded, cycle, running, loop_locals, liveVars >>
    /\ UNCHANGED << kill_switch, halt_orders, emitted, report >>

\* run_backtest (engine.py 151-540) with a trading start boundary
RunBacktestWithStart(trade_start_ts_ms) ==
    BacktestFromDone(trade_start_ts_ms,
                     replay_loop_from([ broker |-> PaperBroker(FeeBps, SlippageBps),
                                        file |-> bt_ledger,
                                        last |-> read_last_ts_ms_from_decisions_csv(bt_ledger),
                                        trades |-> bt_trades, steps |-> << >> ],
                                      bars_from_warmup(bars, Some(trade_start_ts_ms)), 1,
                                      Some(trade_start_ts_ms)))

\* the boundary is any bar time of the store, or between two of them
RunBacktestFrom ==
    \E k \in 1..(MaxBars + 1), off \in { 0, 1 } :
        RunBacktestWithStart(k * step_ms - off)

-----------------------------------------------------------------------------
(* SpecBoundary: the feed closes bars; then the replay is run over the     *)
(* store with a trading start boundary                                     *)

BoundaryInit ==
    /\ broker = PaperBroker(FeeBps, SlippageBps)
    /\ last_call = NoCall
    /\ kill_switch = FALSE
    /\ halt_orders = FALSE
    /\ emitted = << >>
    /\ IdleDriver

BoundaryNext ==
    \/ NewBar
    \/ RunBacktestFrom

SpecBoundary == BoundaryInit /\ [][BoundaryNext]_vars

-----------------------------------------------------------------------------
(* SpecSeed: the process starts on a decisions file of any contents, then  *)
(* writes and restarts                                                     *)

\* the rows of the file the process finds at its first start
MaxFileRows == 2

\* a row of the file with ts_ms = ts (0 and -1: no valid ts_ms)
FileRow(ts) ==
    [ blank_decision_row(ts, ts, 0, 0) EXCEPT !.market_reason = Text(None, "features_invalid") ]

\* the files of up to MaxFileRows rows, in any order of ts_ms
FoundFiles ==
    UNION { [ 1..n -> { FileRow(ts) : ts \in LedgerTs } ] : n \in 0..MaxFileRows }

SeedInit ==
    /\ broker = PaperBroker(FeeBps, SlippageBps)
    /\ last_call = NoCall
    /\ kill_switch = FALSE
    /\ halt_orders = FALSE
    /\ emitted = << >>
    /\ bars = WarmupBars
    /\ ledger \in FoundFiles
    /\ last_decision_ts_ms = None
    /\ recent_reasons = << >>
    /\ degraded_mode = FALSE
    /\ degraded_why = None
    /\ trades = << >>
    /\ polls = 0
    /\ seeded = << >>
    /\ cycle = NoCycle
    /\ running = TRUE
    /\ loop_locals = None
    /\ bt_i = 0
    /\ bt_broker = PaperBroker(FeeBps, SlippageBps)
    /\ bt_ledger = << >>
    /\ bt_last_decision_ts_ms = None
    /\ bt_trades = << >>
    /\ bt_steps = << >>
    /\ report = NoReport

\* the start of the process (main.py 395-411) on the file as it is
SeedStart == RestartWithin(MaxRestarts)

\* a write attempt of the started process
SeedWrite ==
    /\ seeded # << >>
    /\ WriteAttempt

SeedNext ==
    \/ SeedStart
    \/ SeedWrite

SpecSeed == SeedInit /\ [][SeedNext]_vars

-----------------------------------------------------------------------------
(* SpecWatchdog: the feed closes bars and sometimes misses one; the live   *)
(* driver polls the store                                                  *)

MaxWatchdogBars == 5

WatchdogInit ==
    /\ broker = PaperBroker(FeeBps, SlippageBps)
    /\ last_call = NoCall
    /\ kill_switch = FALSE
    /\ halt_orders = FALSE
    /\ emitted = << >>
    /\ IdleDriver

WatchdogNewBar == NewBarWithin(MaxWatchdogBars)

WatchdogGapBar == GapBarWithin(MaxWatchdogBars)

WatchdogNext ==
    \/ WatchdogNewBar
    \/ WatchdogGapBar
    \/ LiveCycle

SpecWatchdog == WatchdogInit /\ [][WatchdogNext]_vars

-----------------------------------------------------------------------------
(* SpecRecovery: the first bars the live driver sees are of any kind, the  *)
(* bars after them are quiet bars at the expected cadence                  *)

\* the bars of any kind after the warm-up
MaxTroubledBars == 2

\* the window's 6 bars, the bar in progress and the warm-up
MaxRecoveryBars == MinBars - 1 + MaxTroubledBars + WatchdogWindow + 1

RecoveryInit ==
    /\ broker = PaperBroker(FeeBps, SlippageBps)
    /\ last_call = NoCall
    /\ kill_switch = FALSE
    /\ halt_orders = FALSE
    /\ emitted = << >>
    /\ IdleDriver

\* a bar of any kind
TroubledBar ==
    /\ Len(bars) < MinBars - 1 + MaxTroubledBars
    /\ NewBarWithin(MaxRecoveryBars)

\* a quiet bar at the expected cadence
CleanBar ==
    /\ bt_i = 0
    /\ Len(bars) >= MinBars - 1 + MaxTroubledBars
    /\ Len(bars) < MaxRecoveryBars
    /\ bars' = Append(bars, QuietBar(Last(bars).ts + step_ms))
    /\ polls' = 0
    /\ cycle' = Cycle("feed", 0, << >>, FALSE, FALSE, FALSE, FALSE)
    /\ UNCHANGED << broker, seeded, running, loop_locals, liveVars, replayVars >>
    /\ UNCHANGED nonDriverVars

RecoveryNext ==
    \/ TroubledBar
    \/ CleanBar
    \/ LiveCycle

SpecRecovery == RecoveryInit /\ [][RecoveryNext]_vars

-----------------------------------------------------------------------------
(* SpecLedger: any sequence of decision-write attempts and restarts        *)

LedgerInit ==
    /\ broker = PaperBroker(FeeBps, SlippageBps)
    /\ last_call = NoCall
    /\ kill_switch = FALSE
    /\ halt_orders = FALSE
    /\ emitted = << >>
    /\ IdleDriver

LedgerNext ==
    \/ WriteAttempt
    \/ LedgerRestart

SpecLedger == LedgerInit /\ [][LedgerNext]_vars

-----------------------------------------------------------------------------
(* SpecLive: the feed closes bars; the live driver polls the store and may  *)
(* be restarted                                                             *)

LiveInit ==
    /\ broker = PaperBroker(FeeBps, SlippageBps)
    /\ last_call = NoCall
    /\ kill_switch = FALSE
    /\ halt_orders = FALSE
    /\ emitted = << >>
    /\ IdleDriver

LiveNext ==
    \/ NewBar
    \/ LiveCycle
    \/ Restart

SpecLive == LiveInit /\ [][LiveNext]_vars

-----------------------------------------------------------------------------
(* SpecDriver: the feed closes bars and the live driver polls the store,   *)
(* without a restart; then the replay is run over the same store           *)

DriverInit ==
    /\ broker = PaperBroker(FeeBps, SlippageBps)
    /\ last_call = NoCall
    /\ kill_switch = FALSE
    /\ halt_orders = FALSE
    /\ emitted = << >>
    /\ IdleDriver

DriverNext ==
    \/ NewBar
    \/ LiveCycle
    \/ RunBacktest

SpecDriver == DriverInit /\ [][DriverNext]_vars

-----------------------------------------------------------------------------
(* SpecEntry: the live driver polls one closed bar while the guard files   *)
(* come and go and the guard's environment is set as the operator likes    *)

\* what the guard can read from the environment at a call
LiveGuardEnvs ==
    { GuardEnv(e.require_armed, e.armed, e.dry_run, e.max_order_usd) :
        e \in { x \in GuardEnvs : x.max_position_usd = 0 } }

\* one iteration of the live loop under some environment of the guard
GuardedLiveCycle ==
    \E e \in LiveGuardEnvs :
        LiveWrite(live_cycle(broker, recent_reasons, degraded_mode, degraded_why, bars,
                             kill_switch, halt_orders, e))

EntryInit ==
    /\ broker = PaperBroker(FeeBps, SlippageBps)
    /\ last_call = NoCall
    /\ kill_switch \in BOOLEAN
    /\ halt_orders \in BOOLEAN
    /\ emitted = << >>
    /\ \E bar \in BarsAt(MinBars * step_ms) : bars = Append(WarmupBars, bar)
    /\ ledger = << >>
    /\ last_decision_ts_ms = None
    /\ recent_reasons = << >>
    /\ degraded_mode = FALSE
    /\ degraded_why = None
    /\ trades = << >>
    /\ polls = 0
    /\ seeded = << >>
    /\ cycle = NoCycle
    /\ running = TRUE
    /\ loop_locals = None
    /\ bt_i = 0
    /\ bt_broker = PaperBroker(FeeBps, SlippageBps)
    /\ bt_ledger = << >>
    /\ bt_last_decision_ts_ms = None
    /\ bt_trades = << >>
    /\ bt_steps = << >>
    /\ report = NoReport

EntryNext ==
    \/ GuardedLiveCycle
    \/ SetFiles

SpecEntry == EntryInit /\ [][EntryNext]_vars

-----------------------------------------------------------------------------
(* SpecFaults: the live driver while its steps fail: the fetch raises      *)
(* MarketFetchError after its retries                                      *)

\* the row of the except MarketFetchError branch (main.py 471-476), built from
\* the locals l of the previous iteration
fetch_failed_row(l) ==
    [ blank_decision_row(l.now_ts_ms, l.now_iso, l.bar_high, l.bar_low) EXCEPT
        !.market_reason = Text(None, "fetch_failed"),
        !.position_side = l.position_side,
        !.position_qty = l.position_qty,
        !.position_entry_price = l.position_entry_price,
        !.position_stop_price = l.position_stop_price,
        !.position_trailing_anchor_price = l.position_trailing_anchor_price ]

\* the rows the branch hands to the writer: none when the locals are not
\* bound, as reading now_ts_ms raises and the outer except Exception logs it
fetch_failed_rows(locals) ==
    IF IsSome(locals) THEN << fetch_failed_row(Get(locals)) >> ELSE << >>

\* the state after an iteration whose fetch failed, with write result w
FetchFailCommit(rows, w) ==
    /\ bt_i = 0
    /\ running
    /\ running' = IF rows # << >> THEN TRUE ELSE loop_goes_on("Exception")
    /\ polls < MaxPolls
    /\ ledger' = w.file
    /\ last_decision_ts_ms' = w.last
    /\ recent_reasons' = IF rows # << >>
                         THEN deque_append(recent_reasons, Text(None, "fetch_failed"))
                         ELSE recent_reasons
    /\ polls' = polls + 1
    /\ cycle' = Cycle("fetch_failed", IF rows # << >> THEN rows[1].ts_ms ELSE 0, rows,
                      w.appended, FALSE, FALSE, FALSE)
    /\ UNCHANGED << broker, bars, degraded_mode, degraded_why, trades, seeded,
                    loop_locals, replayVars >>
    /\ UNCHANGED nonDriverVars

FetchFailWrite(rows) ==
    FetchFailCommit(rows, write_attempted(ledger, last_decision_ts_ms, rows))

\* one iteration of the live loop in which fetch_market_data raises
\* MarketFetchError (main.py 463-480, 896-898)
FetchFail == FetchFailWrite(fetch_failed_rows(loop_locals))

\* the writer's result when append_decision_csv raises: nothing is appended
\* and the watermark is not assigned (main.py 428-434)
write_raised(file, last) ==
    [ file |-> file, last |-> last, appended |-> FALSE ]

\* the cycle c cut short at its write: the tag that every path appends to
\* recent_reasons after the write is not appended
cut_at_write(c) == [ c EXCEPT !.out.tag = NoText ]

\* the cycle reaches append_decision_csv, which raises; the outer except
\* Exception logs it
LedgerWriteFails(c) ==
    /\ write_attempted(ledger, last_decision_ts_ms, c.out.rows).appended
    /\ LiveCommitAs("write_failed", loop_goes_on("Exception"), cut_at_write(c),
                    write_raised(ledger, last_decision_ts_ms))

\* one iteration of the live loop in which the ledger append fails
LedgerWriteFail ==
    LedgerWriteFails(live_cycle(broker, recent_reasons, degraded_mode, degraded_why, bars,
                                kill_switch, halt_orders, PaperEnv))

\* one iteration of the live loop in which the bar store's write fails
\* (main.py 484-492): forced by FORCE_PERSIST_FAIL, the handler's row has
\* ts_ms 0, which the writer ignores, and the tag is appended (main.py
\* 884-891); raised by append_ohlcv_parquet, the error is only logged
PersistFail ==
    \E forced \in BOOLEAN :
        /\ bt_i = 0
        /\ running
        /\ running' = loop_goes_on(IF forced THEN "RuntimeError" ELSE "Exception")
        /\ polls < MaxPolls
        /\ recent_reasons' = IF forced
                             THEN deque_append(recent_reasons, Text(None, "persist_failed"))
                             ELSE recent_reasons
        /\ polls' = polls + 1
        /\ cycle' = Cycle("persist_failed", 0, << >>, FALSE, FALSE, FALSE, FALSE)
        /\ UNCHANGED << broker, bars, ledger, last_decision_ts_ms, degraded_mode,
                        degraded_why, trades, seeded, loop_locals, replayVars >>
        /\ UNCHANGED nonDriverVars

\* the operator interrupts the process while it is in the loop's body
\* (main.py 893-895)
Interrupt ==
    /\ bt_i = 0
    /\ running
    /\ running' = loop_goes_on("KeyboardInterrupt")
    /\ cycle' = Cycle("interrupt", 0, << >>, FALSE, FALSE, FALSE, FALSE)
    /\ UNCHANGED << broker, bars, polls, seeded, loop_locals, liveVars, replayVars >>
    /\ UNCHANGED nonDriverVars

FaultsInit ==
    /\ broker = PaperBroker(FeeBps, SlippageBps)
    /\ last_call = NoCall
    /\ kill_switch = FALSE
    /\ halt_orders = FALSE
    /\ emitted = << >>
    /\ IdleDriver

FaultsNext ==
    \/ FaultsNewBar
    \/ LiveCycle
    \/ FetchFail
    \/ LedgerWriteFail
    \/ PersistFail
    \/ Interrupt

SpecFaults == FaultsInit /\ [][FaultsNext]_vars

-----------------------------------------------------------------------------
(* The equivalence verifier's signatures                                   *)
(* (main_live_vs_backtest_equivalence.py 36-91)                            *)

\* x is an optional boolean field of a row (None when blank)
boolish(x) == IsSome(x) /\ Get(x)

norm_side(x) == IF x \in { "LONG", "SHORT" } THEN x ELSE ""

decision_sig(row) ==
    << row.ts_ms, boolish(row.entry_should_enter), norm_side(row.entry_side),
       boolish(row.exit_should_exit), row.exit_reason, norm_side(row.position_side),
       IsSome(row.position_stop_price), IsSome(row.position_trailing_anchor_price) >>

\* a missing timestamp counts as 0
trade_sig(trade) ==
    << trade.entry_ts_ms, IF IsSome(trade.exit_ts_ms) THEN Get(trade.exit_ts_ms) ELSE 0,
       norm_side(trade.side), trade.exit_reason >>

-----------------------------------------------------------------------------
(* The equivalence verifier (files/main_live_vs_backtest_equivalence.py)   *)

SetMin(S) == CHOOSE x \in S : \A y \in S : x <= y

SetMax(S) == CHOOSE x \in S : \A y \in S : x >= y

\* the ts_ms of the rows of a decisions file
decision_tss(rows) == { rows[i].ts_ms : i \in DOMAIN rows }

\* the dict the comparison builds from the loaded rows: the rows of the
\* window keyed by ts_ms, the last row of a ts_ms kept
by_ts(rows, overlap_start, overlap_end) ==
    [ t \in { x \in decision_tss(rows) : overlap_start <= x /\ x <= overlap_end } |->
        rows[SetMax({ i \in DOMAIN rows : rows[i].ts_ms = t })] ]

flat_in_both(live_by_ts, bt_by_ts) ==
    { t \in DOMAIN live_by_ts \cap DOMAIN bt_by_ts :
        live_by_ts[t].position_side = "" /\ bt_by_ts[t].position_side = "" }

\* Optional[int]
find_first_mutual_flat_ts(live_by_ts, bt_by_ts, overlap_start, overlap_end) ==
    IF { t \in flat_in_both(live_by_ts, bt_by_ts) :
           overlap_start <= t /\ t <= overlap_end } = { }
    THEN None
    ELSE Some(SetMin({ t \in flat_in_both(live_by_ts, bt_by_ts) :
                        overlap_start <= t /\ t <= overlap_end }))

noop_ignoring_position(row) ==
    /\ ~boolish(row.entry_should_enter)
    /\ ~boolish(row.exit_should_exit)

is_noop_decision(row) ==
    /\ ~boolish(row.entry_should_enter)
    /\ ~boolish(row.exit_should_exit)
    /\ row.position_side = ""

compare_all_of_overlap(m, sync_ts) == m

\* the dict restricted to the timestamps from the sync point on
from_sync(m, sync_ts) == [ t \in { x \in DOMAIN m : x >= sync_ts } |-> m[t] ]

\* the timestamps of a that b lacks and whose row is not a no-op
missing_bad(a, b) == { t \in DOMAIN a \ DOMAIN b : ~is_noop_decision(a[t]) }

mismatches(live_by_ts, bt_by_ts) ==
    { t \in DOMAIN live_by_ts \cap DOMAIN bt_by_ts :
        decision_sig(live_by_ts[t]) # decision_sig(bt_by_ts[t]) }

\* what compare_decisions_by_ts returns, and the timestamps its message names
DecisionResult(ok, why, overlap_start, overlap_end, sync_ts, reported) ==
    [ ok |-> ok, why |-> why, overlap_start |-> overlap_start,
      overlap_end |-> overlap_end, sync_ts |-> sync_ts, reported |-> reported ]

\* the comparison of the two dicts restricted to the timestamps >= sync_ts
compare_synced(live_by_ts, bt_by_ts, overlap_start, overlap_end, sync_ts) ==
    IF DOMAIN live_by_ts \cap DOMAIN bt_by_ts = { }
    THEN DecisionResult(FALSE, "no_common", overlap_start, overlap_end, sync_ts, { })
    ELSE IF missing_bad(bt_by_ts, live_by_ts) \cup missing_bad(live_by_ts, bt_by_ts) # { }
    THEN DecisionResult(FALSE, "missing", overlap_start, overlap_end, sync_ts,
                        missing_bad(bt_by_ts, live_by_ts)
                            \cup missing_bad(live_by_ts, bt_by_ts))
    ELSE IF mismatches(live_by_ts, bt_by_ts) # { }
    THEN DecisionResult(FALSE, "mismatch", overlap_start, overlap_end, sync_ts,
                        { SetMin(mismatches(live_by_ts, bt_by_ts)) })
    ELSE DecisionResult(TRUE, "pass", overlap_start, overlap_end, sync_ts, { })

compare_from(live_by_ts, bt_by_ts, overlap_start, overlap_end, sync_ts) ==
    compare_synced(from_sync(live_by_ts, sync_ts), from_sync(bt_by_ts, sync_ts),
                   overlap_start, overlap_end, sync_ts)

\* the sync point: the first mutual-flat timestamp, else the overlap's start
sync_or_start(found, overlap_start) == IF IsSome(found) THEN Get(found) ELSE overlap_start

compare_in_overlap(live_by_ts, bt_by_ts, overlap_start, overlap_end) ==
    compare_from(live_by_ts, bt_by_ts, overlap_start, overlap_end,
                 sync_or_start(find_first_mutual_flat_ts(live_by_ts, bt_by_ts,
                                                         overlap_start, overlap_end),
                               overlap_start))

compare_window(live_rows, bt_rows, overlap_start, overlap_end) ==
    IF overlap_start > overlap_end
    THEN DecisionResult(FALSE, "no_overlap", overlap_start, overlap_end, overlap_start, { })
    ELSE compare_in_overlap(by_ts(live_rows, overlap_start, overlap_end),
                            by_ts(bt_rows, overlap_start, overlap_end),
                            overlap_start, overlap_end)

compare_decisions_by_ts(live_rows, bt_rows) ==
    IF live_rows = << >>
    THEN DecisionResult(FALSE, "live_no_rows", 0, 0, 0, { })
    ELSE IF bt_rows = << >>
    THEN DecisionResult(FALSE, "bt_no_rows", 0, 0, 0, { })
    ELSE compare_window(live_rows, bt_rows,
                        Max(SetMin(decision_tss(live_rows)), SetMin(decision_tss(bt_rows))),
                        Min(SetMax(decision_tss(live_rows)), SetMax(decision_tss(bt_rows))))

\* Python's order of the strings a trade signature holds
StringOrder == << "", "LONG", "SHORT", "exit", "stop_hit", "time_stop" >>

str_rank(x) == CHOOSE i \in DOMAIN StringOrder : StringOrder[i] = x

\* a < b for signature tuples, as sorted() compares them
sig_less(a, b) ==
    \/ a[1] < b[1]
    \/ a[1] = b[1] /\ a[2] < b[2]
    \/ a[1] = b[1] /\ a[2] = b[2] /\ str_rank(a[3]) < str_rank(b[3])
    \/ a[1] = b[1] /\ a[2] = b[2] /\ a[3] = b[3] /\ str_rank(a[4]) < str_rank(b[4])

RECURSIVE insert_sorted(_, _)
insert_sorted(sorted, x) ==
    IF sorted = << >> THEN << x >>
    ELSE IF sig_less(x, Head(sorted)) THEN << x >> \o sorted
    ELSE << Head(sorted) >> \o insert_sorted(Tail(sorted), x)

RECURSIVE sorted_sigs(_)
sorted_sigs(sigs) ==
    IF sigs = << >> THEN << >>
    ELSE insert_sorted(sorted_sigs(SubSeq(sigs, 1, Len(sigs) - 1)), sigs[Len(sigs)])

in_window(row, start_ts_ms, end_ts_ms) ==
    start_ts_ms <= row.entry_ts_ms /\ row.entry_ts_ms <= end_ts_ms

RECURSIVE rows_in_window(_, _, _)
rows_in_window(rows, start_ts_ms, end_ts_ms) ==
    IF rows = << >> THEN << >>
    ELSE IF in_window(Head(rows), start_ts_ms, end_ts_ms)
    THEN << Head(rows) >> \o rows_in_window(Tail(rows), start_ts_ms, end_ts_ms)
    ELSE rows_in_window(Tail(rows), start_ts_ms, end_ts_ms)

file_order_trade_sigs(rows) == [ i \in DOMAIN rows |-> trade_sig(rows[i]) ]

\* sorted(_trade_sig(r) for r in rows)
sorted_trade_sigs(rows) == sorted_sigs([ i \in DOMAIN rows |-> trade_sig(rows[i]) ])

\* the verdict of compare_trades_windowed
compare_trades_windowed(live_rows, bt_rows, start_ts_ms, end_ts_ms) ==
    sorted_trade_sigs(rows_in_window(live_rows, start_ts_ms, end_ts_ms))
        = sorted_trade_sigs(rows_in_window(bt_rows, start_ts_ms, end_ts_ms))

\* what a run of the verifier printed and its exit code
Report(decisions, trades_compared, ok_tr, exit_code) ==
    [ stage |-> "done", decisions |-> decisions, trades_compared |-> trades_compared,
      ok_tr |-> ok_tr, exit_code |-> exit_code ]

with_trades(decisions, ok_tr) == Report(decisions, TRUE, ok_tr, IF ok_tr THEN 0 ELSE 1)

after_decisions(decisions, live_trades, bt_trades_rows) ==
    IF ~decisions.ok
    THEN Report(decisions, FALSE, FALSE, 1)
    ELSE with_trades(decisions,
                     compare_trades_windowed(live_trades, bt_trades_rows,
                                             decisions.sync_ts, decisions.overlap_end))

verifier_main(live_rows, bt_rows, live_trades, bt_trades_rows) ==
    after_decisions(compare_decisions_by_ts(live_rows, bt_rows), live_trades, bt_trades_rows)

-----------------------------------------------------------------------------
(* SpecVerifier: the verifier run on a pair of decisions files and a pair  *)
(* of trades files                                                         *)

VerifierTs == { t * step_ms : t \in 1..MaxVerifierTs }

\* the kinds of row of the files: nothing to do; an entry signal that opened
\* nothing; a position held; a position stopped out
RowKinds == { "noop", "signal", "held", "exit" }

VerifierRow(kind, ts) ==
    IF kind = "noop" THEN blank_decision_row(ts, ts, BasePrice, BasePrice)
    ELSE IF kind = "signal"
    THEN [ blank_decision_row(ts, ts, BasePrice, BasePrice) EXCEPT
             !.entry_should_enter = Some(TRUE), !.entry_side = "LONG" ]
    ELSE IF kind = "held"
    THEN [ blank_decision_row(ts, ts, BasePrice, BasePrice) EXCEPT
             !.position_side = "LONG", !.position_qty = Some(1),
             !.position_entry_price = Some(BasePrice),
             !.position_stop_price = Some(BasePrice - 2),
             !.position_trailing_anchor_price = Some(BasePrice) ]
    ELSE [ blank_decision_row(ts, ts, BasePrice, BasePrice) EXCEPT
             !.position_side = "LONG", !.position_qty = Some(1),
             !.position_entry_price = Some(BasePrice),
             !.position_stop_price = Some(BasePrice - 2),
             !.position_trailing_anchor_price = Some(BasePrice),
             !.exit_should_exit = Some(TRUE), !.exit_reason = "stop_hit" ]

\* the file that has a row of kind f[t] at t * step_ms, in the order of ts_ms
RECURSIVE file_of(_, _)
file_of(f, n) ==
    IF n = 0 THEN << >>
    ELSE IF f[n] = "absent" THEN file_of(f, n - 1)
    ELSE Append(file_of(f, n - 1), VerifierRow(f[n], n * step_ms))

\* decisions files as the writers leave them: ts_ms strictly increasing
DecisionFiles ==
    { file_of(f, MaxVerifierTs) : f \in [ 1..MaxVerifierTs -> RowKinds \cup { "absent" } ] }

VerifierTrade(entry_ts_ms, exit_reason) ==
    [ entry_ts_ms |-> entry_ts_ms, exit_ts_ms |-> Some(entry_ts_ms + step_ms),
      side |-> "LONG", exit_reason |-> exit_reason ]

VerifierTrades == { VerifierTrade(t, r) : t \in VerifierTs, r \in { "stop_hit", "time_stop" } }

\* trades files: each trade once, in any order
TradeFiles ==
    { << >> } \cup { << a >> : a \in VerifierTrades }
              \cup { p \in { << a, b >> : a \in VerifierTrades, b \in VerifierTrades } :
                         p[1] # p[2] }

\* a run of the verifier's main on the four files
Verify ==
    /\ report' = verifier_main(ledger, bt_ledger, trades, bt_trades)
    /\ UNCHANGED << broker, kill_switch, halt_orders, last_call, emitted, driverVars >>

VerifierInit ==
    /\ broker = PaperBroker(FeeBps, SlippageBps)
    /\ last_call = NoCall
    /\ kill_switch = FALSE
    /\ halt_orders = FALSE
    /\ emitted = << >>
    /\ bars = WarmupBars
    /\ ledger \in DecisionFiles
    /\ last_decision_ts_ms = None
    /\ recent_reasons = << >>
    /\ degraded_mode = FALSE
    /\ degraded_why = None
    /\ trades \in { << >>, << VerifierTrade(step_ms, "stop_hit") >> }
    /\ polls = 0
    /\ seeded = << >>
    /\ cycle = NoCycle
    /\ running = TRUE
    /\ loop_locals = None
    /\ bt_i = 0
    /\ bt_broker = PaperBroker(FeeBps, SlippageBps)
    /\ bt_ledger \in DecisionFiles
    /\ bt_last_decision_ts_ms = None
    /\ bt_trades \in { << >>, << VerifierTrade(step_ms, "stop_hit") >> }
    /\ bt_steps = << >>
    /\ report = NoReport

VerifierNext == Verify

SpecVerifier == VerifierInit /\ [][VerifierNext]_vars

-----------------------------------------------------------------------------
(* SpecTrades: the verifier's trade comparison on a pair of trades files   *)
(* and a window                                                            *)

\* a call of compare_trades_windowed
CompareTrades ==
    \E start_ts_ms \in VerifierTs, end_ts_ms \in VerifierTs :
        /\ start_ts_ms <= end_ts_ms
        /\ report' = [ stage |-> "trades", start_ts_ms |-> start_ts_ms,
                       end_ts_ms |-> end_ts_ms,
                       ok_tr |-> compare_trades_windowed(trades, bt_trades,
                                                         start_ts_ms, end_ts_ms) ]
        /\ UNCHANGED << broker, kill_switch, halt_orders, last_call, emitted, driverVars >>

TradesInit ==
    /\ broker = PaperBroker(FeeBps, SlippageBps)
    /\ last_call = NoCall
    /\ kill_switch = FALSE
    /\ halt_orders = FALSE
    /\ emitted = << >>
    /\ bars = WarmupBars
    /\ ledger = << >>
    /\ last_decision_ts_ms = None
    /\ recent_reasons = << >>
    /\ degraded_mode = FALSE
    /\ degraded_why = None
    /\ trades \in TradeFiles
    /\ polls = 0
    /\ seeded = << >>
    /\ cycle = NoCycle
    /\ running = TRUE
    /\ loop_locals = None
    /\ bt_i = 0
    /\ bt_broker = PaperBroker(FeeBps, SlippageBps)
    /\ bt_ledger = << >>
    /\ bt_last_decision_ts_ms = None
    /\ bt_trades \in TradeFiles
    /\ bt_steps = << >>
    /\ report = NoReport

TradesNext == CompareTrades

SpecTrades == TradesInit /\ [][TradesNext]_vars

-----------------------------------------------------------------------------
(* SpecScenario: the verifier run on decisions files over four             *)
(* timestamps 100 apart                                                    *)

ScenarioKinds == { "noop", "entry", "held" }

\* a row of the scenario's files; entry: the signal and the position it opened
ScenarioRow(kind, ts) ==
    IF kind = "entry"
    THEN [ VerifierRow("held", ts) EXCEPT
             !.entry_should_enter = Some(TRUE), !.entry_side = "LONG" ]
    ELSE VerifierRow(kind, ts)

\* the file that has a row of kind f[t] at t * ScenarioStep
RECURSIVE scenario_file(_, _)
scenario_file(f, n) ==
    IF n = 0 THEN << >>
    ELSE IF f[n] = "absent" THEN scenario_file(f, n - 1)
    ELSE Append(scenario_file(f, n - 1), ScenarioRow(f[n], n * ScenarioStep))

ScenarioFiles ==
    { scenario_file(f, ScenarioLen) :
        f \in [ 1..ScenarioLen -> ScenarioKinds \cup { "absent" } ] }

ScenarioInit ==
    /\ broker = PaperBroker(FeeBps, SlippageBps)
    /\ last_call = NoCall
    /\ kill_switch = FALSE
    /\ halt_orders = FALSE
    /\ emitted = << >>
    /\ bars = WarmupBars
    /\ ledger \in ScenarioFiles
    /\ last_decision_ts_ms = None
    /\ recent_reasons = << >>
    /\ degraded_mode = FALSE
    /\ degraded_why = None
    /\ trades = << >>
    /\ polls = 0
    /\ seeded = << >>
    /\ cycle = NoCycle
    /\ running = TRUE
    /\ loop_locals = None
    /\ bt_i = 0
    /\ bt_broker = PaperBroker(FeeBps, SlippageBps)
    /\ bt_ledger \in ScenarioFiles
    /\ bt_last_decision_ts_ms = None
    /\ bt_trades = << >>
    /\ bt_steps = << >>
    /\ report = NoReport

ScenarioNext == Verify

SpecScenario == ScenarioInit /\ [][ScenarioNext]_vars

-----------------------------------------------------------------------------
(* Claims                                                                  *)

\* C1: the stops emitted for one position by successive trailing-stop updates,
\* each stored before the next update, never decrease for a LONG position and
\* never increase for a SHORT position.
C1_StopMonotone ==
    \A i \in 1..(Len(emitted) - 1) :
        IF Get(broker.tracked[ccxt_symbol]).side = "LONG"
        THEN emitted[i] <= emitted[i + 1]
        ELSE emitted[i] >= emitted[i + 1]

\* C1 witness: a LONG position whose stop was ratcheted up and then held
\* against a lower candidate.
C1_Witness ==
    /\ Len(emitted) >= 3
    /\ Get(broker.tracked[ccxt_symbol]).side = "LONG"
    /\ emitted[1] < emitted[2]
    /\ emitted[2] = emitted[3]
    /\ last_call.reason = "ratchet"

\* C5: with the kill-switch file present, GuardedBroker.open_position returns
\* normally and leaves the inner broker as it was, whatever side, size and
\* price it is given; and realize_and_close on a tracked position still closes it.
C5_KillSwitchBlocksEntry ==
    [][ kill_switch =>
          /\ last_call'.op = "guarded_open" =>
                (broker' = broker /\ ~last_call'.raised)
          /\ (last_call'.op = "guarded_close" /\ IsSome(broker.tracked[ccxt_symbol])) =>
                /\ ~IsSome(broker'.tracked[ccxt_symbol])
                /\ broker'.trades_closed = broker.trades_closed + 1 ]_vars

\* C5 witness: an open_position with valid size and price, on a free symbol,
\* was blocked by the kill switch.
C5_Witness ==
    /\ last_call.op = "guarded_open"
    /\ last_call.reason = "kill_switch"
    /\ last_call.valid
    /\ kill_switch
    /\ ~IsSome(broker.tracked[ccxt_symbol])

\* the times now >= T at which the cooldown is examined after a close at T
\* with N bars
QueryTimes(T, N) ==
    { now \in { T + k * TickMs : k \in 0..(2 * (N + 1)) }
                \cup { T + N * step_ms - 1, T + N * step_ms, T + N * step_ms + 1 } :
        now >= T }

\* C6: right after a position is closed at T, cooldown_remaining_bars(now = T)
\* is N; it never increases with now; it is 0 exactly from now = T + N*S on.
C6_CooldownCorrect ==
    (last_call.op = "close" /\ last_call.valid /\ IsSome(last_call.ts)) =>
        LET T == Get(last_call.ts)
            CR(now, N) == cooldown_remaining_bars(broker, ccxt_symbol, now,
                                                  ExpectedStepS, N)
        IN  \A N \in 0..MaxCooldown :
                /\ CR(T, N) = N
                /\ \A now \in QueryTimes(T, N) :
                      (CR(now, N) = 0) <=> (now >= T + N * step_ms)
                /\ \A n1 \in QueryTimes(T, N), n2 \in QueryTimes(T, N) :
                      n1 <= n2 => CR(n2, N) <= CR(n1, N)

\* C6 witness: a position was closed at a time T > 0 that is not a multiple of
\* the bar step, and two bars of cooldown remain at T.
C6_Witness ==
    /\ last_call.op = "close"
    /\ last_call.valid
    /\ last_call.ts = Some(TickMs)
    /\ cooldown_remaining_bars(broker, ccxt_symbol, TickMs, ExpectedStepS, 2) = 2
    /\ cooldown_remaining_bars(broker, ccxt_symbol, TickMs + 2 * step_ms - 1,
                               ExpectedStepS, 2) = 1

\* C7: PaperBroker.open_position on a symbol that already has a tracked position
\* returns normally and changes nothing, whatever its arguments.
C7_OccupiedOpenIsNoOp ==
    [][ (last_call'.op = "paper_open" /\ IsSome(broker.tracked[ccxt_symbol])) =>
            (broker' = broker /\ ~last_call'.raised) ]_vars

\* C2: whatever ts_ms the write attempts carry and however many restarts re-seed
\* the watermark from the ledger, the ts_ms of the ledger's records is strictly
\* increasing in file order (so no two records share a ts_ms), and no record
\* lies above the watermark.
C2_LedgerStrictlyIncreasing ==
    /\ \A i \in DOMAIN ledger, j \in DOMAIN ledger :
          i < j => ledger[i].ts_ms < ledger[j].ts_ms
    /\ \A i \in DOMAIN ledger :
          IsSome(last_decision_ts_ms) /\ ledger[i].ts_ms <= Get(last_decision_ts_ms)

\* C2 witness: after a restart that seeded the watermark from a ledger of at
\* least two records, a write carrying exactly the seeded ts_ms was refused.
C2_Witness ==
    /\ Len(ledger) >= 2
    /\ seeded # << >>
    /\ Last(seeded) = Last(ledger).ts_ms
    /\ cycle.driver = "write"
    /\ cycle.ts = Last(seeded)
    /\ ~cycle.appended

\* C3: after a restart seeded with watermark W from the ledger, every bar of the store with a
\* timestamp above W and below the newest recorded timestamp has a decision
\* record.
C3_ResumesWithoutGaps ==
    (seeded # << >> /\ Last(seeded) > 0) =>
        \A k \in DOMAIN bars :
            ( /\ bars[k].ts > Last(seeded)
              /\ \E i \in DOMAIN ledger : ledger[i].ts_ms > bars[k].ts )
            => \E i \in DOMAIN ledger : ledger[i].ts_ms = bars[k].ts

\* every bar of the store has valid features
AllBarsValid == \A k \in DOMAIN bars : bars[k].valid

\* the live driver has run a cycle on every closed bar from the first tradable one
EveryBarPolled ==
    \A k \in MinBars..(Len(bars) - 1) :
        \E i \in DOMAIN ledger : ledger[i].ts_ms = bars[k].ts

\* the newest bar the live driver has recorded
LastLiveTs == IF ledger = << >> THEN 0 ELSE Last(ledger).ts_ms

\* C4: over the same store of valid bars, both runs starting flat with no halt,
\* the live driver having polled every closed bar at least once, the live and
\* the replay ledgers carry the same decision signature at every ts_ms they
\* share, and the trades closed up to the newest bar the live driver recorded
\* have the same signatures in both runs.
C4_LiveReplayEquivalent ==
    (bt_i # 0 /\ AllBarsValid /\ EveryBarPolled /\ ~kill_switch /\ ~halt_orders) =>
        /\ \A i \in DOMAIN ledger, j \in DOMAIN bt_ledger :
              ledger[i].ts_ms = bt_ledger[j].ts_ms =>
                  decision_sig(ledger[i]) = decision_sig(bt_ledger[j])
        /\ { trade_sig(trades[i]) : i \in DOMAIN trades }
             = { trade_sig(bt_trades[j]) :
                   j \in { n \in DOMAIN bt_trades :
                             trade_sig(bt_trades[n])[2] <= LastLiveTs } }

\* the step handed the writer exactly one row, for the bar it processed, with
\* the full field set
OneFullRow(c) ==
    /\ Len(c.rows) = 1
    /\ c.rows[1].ts_ms = c.ts
    /\ DOMAIN c.rows[1] = DecisionFields

\* C8: every live cycle and every iteration of the replay loop hands the writer
\* exactly one row, carrying the processed bar's ts_ms and the full field set.
C8_OneAttemptPerBar ==
    /\ cycle.driver = "live" => OneFullRow(cycle)
    /\ \A k \in DOMAIN bt_steps : OneFullRow(bt_steps[k])

\* the step left a position whose entry is still ahead of the bar alone
LeftPendingAlone(c) == c.pending => (~c.trailed /\ ~c.exit_evaluated)

\* C9: in both drivers a position opened while processing bar t has
\* entry_ts_ms > t, and a step that begins with entry_ts_ms > now applies
\* neither the trailing update nor the exit rules to the position.
C9_PendingEntryUntouched ==
    /\ cycle.driver = "live" => LeftPendingAlone(cycle)
    /\ \A k \in DOMAIN bt_steps : LeftPendingAlone(bt_steps[k])
    /\ ( /\ cycle.driver = "live"
          /\ cycle.rows # << >>
          /\ cycle.rows[1].entry_should_enter = Some(TRUE)
          /\ IsSome(broker.tracked[ccxt_symbol]) )
        => Get(broker.tracked[ccxt_symbol]).entry_ts_ms > cycle.ts

\* C10: a live cycle run with the degraded flag set opens no position, makes
\* no trailing update (so no update_stop call), and leaves the stop and the
\* trailing anchor of a tracked position as they were.
C10_DegradedFreezes ==
    [][ (cycle'.driver = "live" /\ degraded_mode') =>
          /\ ~cycle'.trailed
          /\ ~IsSome(broker.tracked[ccxt_symbol]) => ~IsSome(broker'.tracked[ccxt_symbol])
          /\ (IsSome(broker.tracked[ccxt_symbol]) /\ IsSome(broker'.tracked[ccxt_symbol])) =>
                /\ Get(broker'.tracked[ccxt_symbol]).stop_price
                     = Get(broker.tracked[ccxt_symbol]).stop_price
                /\ Get(broker'.tracked[ccxt_symbol]).trailing_anchor_price
                     = Get(broker.tracked[ccxt_symbol]).trailing_anchor_price ]_vars

\* C10 witness: a degraded live cycle held a position through a bar whose
\* trailing update would have moved the stop, and tagged the freeze.
C10_Witness ==
    /\ cycle.driver = "live"
    /\ degraded_mode
    /\ IsSome(broker.tracked[ccxt_symbol])
    /\ cycle.rows # << >>
    /\ cycle.rows[1].trail_reason = "degraded_freeze_trailing"
    /\ \E k \in DOMAIN bars :
          /\ bars[k].ts = cycle.ts
          /\ trail_and_store(broker, ccxt_symbol, bars[k].close, bars[k].high,
                              bars[k].low, bars[k].atr).tracked[ccxt_symbol]
               # broker.tracked[ccxt_symbol]

\* the window of closed bars a live cycle works on
LiveWindow == drop_in_progress_last_bar_if_safe(Tail_n(bars, live_tail_n), MinBars)

\* the exit rules say the tracked position must be closed on the window's
\* latest bar (non-tradable market, close beyond the stop, or held too long)
ExitConditionHolds ==
    /\ IsSome(broker.tracked[ccxt_symbol])
    /\ evaluate_exit(Get(broker.tracked[ccxt_symbol]), Last(LiveWindow).close,
                     Last(LiveWindow).ts, determine_market_state(LiveWindow, MinBars),
                     ExpectedStepS).should_exit

\* C11: a live cycle run while degraded, or while a kill or halt file is
\* present, closes the tracked position when its exit condition holds on the
\* bar processed.
C11_ExitsStayEnabled ==
    [][ ( /\ cycle'.driver = "live"
          /\ degraded_mode' \/ kill_switch \/ halt_orders
          /\ ExitConditionHolds )
        => ~IsSome(broker'.tracked[ccxt_symbol]) ]_vars

\* C12: the decision record of a live cycle shows an entry signal
\* (entry_should_enter true) only when the cycle opened the position; when the
\* guard blocked the entry the record carries a blocked_by_* entry_reason and
\* no position is tracked.
C12_BlockedEntryRecorded ==
    (cycle.driver = "live" /\ cycle.rows # << >>) =>
        /\ boolish(cycle.rows[1].entry_should_enter) =>
              (IsSome(broker.tracked[ccxt_symbol]) /\ cycle.rows[1].position_side # "")
        /\ cycle.rows[1].entry_reason \in { "blocked_by_halt", "blocked_by_degraded",
                                            "blocked_by_size_cap" } =>
              ~IsSome(broker.tracked[ccxt_symbol])

\* C13: a restart of the live driver loses no broker state: the position
\* tracked before the restart is tracked after it, with its stop, and the time
\* of the last close that the cooldown counts from is kept.
C13_RestartKeepsState ==
    [][ cycle'.driver = "restart" =>
          /\ broker'.tracked = broker.tracked
          /\ broker'.last_exit_ts_ms = broker.last_exit_ts_ms ]_vars

\* C14: an iteration of the live loop whose fetch fails appends a decision
\* record with market_reason fetch_failed to the ledger, on the first
\* iteration as on later ones.
C14_FetchFailedRecorded ==
    cycle.driver = "fetch_failed" =>
        /\ cycle.appended
        /\ ledger # << >>
        /\ Last(ledger).market_reason = Text(None, "fetch_failed")

\* C15: when the ledger append for bar t fails, the watermark is not advanced,
\* and the next cycle retries the same bar: it appends a record for t that
\* shows the decision and the position the failed cycle applied to the broker.
C15_RetriedRowSameDecision ==
    [][ /\ cycle'.driver = "write_failed" => last_decision_ts_ms' = last_decision_ts_ms
        /\ ( cycle.driver = "write_failed" /\ cycle'.driver = "live" ) =>
              /\ cycle'.appended
              /\ cycle'.ts = cycle.ts
              /\ decision_sig(cycle'.rows[1]) = decision_sig(cycle.rows[1]) ]_vars

FaultyCycles == { "fetch_failed", "write_failed", "persist_failed" }

\* C16: after an iteration of the live loop in which the fetch, the store's
\* write or the ledger append failed, the loop is still running, and the loop
\* is left only by an interrupt.
C16_LoopSurvivesErrors ==
    [][ /\ cycle'.driver \in FaultyCycles => running'
        /\ (running /\ ~running') => cycle'.driver = "interrupt" ]_vars

\* a failed ledger append behind, the loop running and a next cycle to come
C16_Witness ==
    /\ cycle.driver = "write_failed"
    /\ running
    /\ polls < MaxPolls

\* the verifier ran and its two files had an overlap window
Compared == report.stage = "done" /\ report.decisions.why \in { "no_common", "missing", "mismatch", "pass" }

\* the row of a decisions file at ts_ms t
RowAt(rows, t) == rows[CHOOSE i \in DOMAIN rows : rows[i].ts_ms = t]

\* the timestamps of a file from lo to hi
TsWithin(rows, lo, hi) == { t \in decision_tss(rows) : lo <= t /\ t <= hi }

\* the timestamps of the overlap window that both files hold with a flat position
MutualFlat ==
    { t \in TsWithin(ledger, report.decisions.overlap_start, report.decisions.overlap_end)
            \cap decision_tss(bt_ledger) :
        RowAt(ledger, t).position_side = "" /\ RowAt(bt_ledger, t).position_side = "" }

\* the timestamps the comparison covers in each file, and in both
LiveCompared == TsWithin(ledger, report.decisions.sync_ts, report.decisions.overlap_end)

BtCompared == TsWithin(bt_ledger, report.decisions.sync_ts, report.decisions.overlap_end)

\* one-sided timestamps whose row is not a no-op
OneSidedBad ==
    { t \in LiveCompared \ BtCompared :
        boolish(RowAt(ledger, t).entry_should_enter)
          \/ boolish(RowAt(ledger, t).exit_should_exit)
          \/ RowAt(ledger, t).position_side # "" }
    \cup
    { t \in BtCompared \ LiveCompared :
        boolish(RowAt(bt_ledger, t).entry_should_enter)
          \/ boolish(RowAt(bt_ledger, t).exit_should_exit)
          \/ RowAt(bt_ledger, t).position_side # "" }

\* common timestamps whose signatures differ
Mismatched ==
    { t \in LiveCompared \cap BtCompared :
        decision_sig(RowAt(ledger, t)) # decision_sig(RowAt(bt_ledger, t)) }

\* C17: the sync point is the smallest timestamp of the overlap window that
\* both files hold with a flat position, and the verdict on the decisions is
\* settled by the rows from the sync point to the end of the overlap alone.
C17_SyncAtFirstMutualFlat ==
    Compared =>
        /\ MutualFlat # { } => report.decisions.sync_ts = SetMin(MutualFlat)
        /\ report.decisions.ok <=>
              /\ LiveCompared \cap BtCompared # { }
              /\ OneSidedBad = { }
              /\ Mismatched = { }

\* the files differ at a common timestamp before the sync point and pass
C17_Witness ==
    /\ Compared
    /\ report.decisions.ok
    /\ MutualFlat # { }
    /\ \E t \in TsWithin(ledger, report.decisions.overlap_start,
                          report.decisions.sync_ts - 1) \cap decision_tss(bt_ledger) :
          decision_sig(RowAt(ledger, t)) # decision_sig(RowAt(bt_ledger, t))

C19_FirstDivergenceReported ==
    ( Compared /\ report.decisions.why \in { "missing", "mismatch" } ) =>
        /\ ~report.trades_compared
        /\ OneSidedBad \cup Mismatched # { }
        /\ SetMin(report.decisions.reported) = SetMin(OneSidedBad \cup Mismatched)

\* the signatures of the trades of a file that entered within the window
SigsInWindow(rows) ==
    { trade_sig(rows[i]) :
        i \in { j \in DOMAIN rows : /\ report.start_ts_ms <= rows[j].entry_ts_ms
                                     /\ rows[j].entry_ts_ms <= report.end_ts_ms } }

ScenarioLive ==
    scenario_file([ t \in 1..ScenarioLen |-> IF t <= 3 THEN "noop" ELSE "absent" ],
                  ScenarioLen)

\* replay rows at 200, 300, 400 with a position opened at 300
ScenarioReplay ==
    scenario_file([ t \in 1..ScenarioLen |->
                      IF t = 1 THEN "absent" ELSE IF t = 2 THEN "noop"
                      ELSE IF t = 3 THEN "entry" ELSE "held" ],
                  ScenarioLen)

\* C21: on the live file with no-op rows at 100, 200, 300 and the replay file
\* with rows at 200, 300, 400 and a position opened at 300, the verifier's
\* sync point is 200 and its comparison window is [200, 400].
C21_ScenarioWindow ==
    ( report.stage = "done" /\ ledger = ScenarioLive /\ bt_ledger = ScenarioReplay ) =>
        /\ report.decisions.sync_ts = 2 * ScenarioStep
        /\ report.decisions.overlap_start = 2 * ScenarioStep
        /\ report.decisions.overlap_end = 4 * ScenarioStep

\* C22: called on an open position at a bar where the bars held since entry
\* are at least MAX_HOLD_BARS, in a tradable market, evaluate_exit returns
\* should_exit with reason time_stop, whatever the close and the stop.
C22_TimeStopAtMaxHold ==
    ( /\ last_call.op = "evaluate_exit"
      /\ last_call.tradable
      /\ bars_held(Get(broker.tracked[ccxt_symbol]).entry_ts_ms, last_call.now_ts_ms,
                   ExpectedStepS) >= MAX_HOLD_BARS ) =>
        /\ last_call.should_exit
        /\ last_call.reason = "time_stop"

\* C23: the initial stop is entry - ATR_MULT*atr for LONG and entry +
\* ATR_MULT*atr for SHORT (100 and atr 2 give 96); a trailing update with a
\* positive atr gives the anchor max(a, h), the candidate anchor -
\* TRAIL_ATR_MULT*atr and the stop max(s, candidate) for LONG, mirrored with
\* lows and min for SHORT (stop 96, anchor 100, high 110, atr 2 give anchor
\* 110 and stop 106, which a later lower candidate does not lower).
C23_StopArithmetic ==
    /\ ( last_call.op = "initial_stop" /\ last_call.side = "LONG" ) =>
          /\ last_call.new_stop = Some(last_call.high - 2 * last_call.atr)
          /\ ( last_call.high = 100 /\ last_call.atr = 2 ) => last_call.new_stop = Some(96)
    /\ ( last_call.op = "initial_stop" /\ last_call.side = "SHORT" ) =>
          /\ last_call.new_stop = Some(last_call.high + 2 * last_call.atr)
          /\ ( last_call.high = 100 /\ last_call.atr = 2 ) => last_call.new_stop = Some(104)
    /\ ( last_call.op = "trail" /\ last_call.side = "LONG" ) =>
          /\ last_call.new_anchor
                = Some(Max(Get(last_call.prev_anchor), last_call.high))
          /\ last_call.new_stop
                = Some(Max(Get(last_call.prev_stop),
                           Get(last_call.new_anchor) - 2 * last_call.atr))
          /\ ( last_call.prev_stop = Some(96) /\ last_call.prev_anchor = Some(100)
                /\ last_call.high = 110 /\ last_call.atr = 2 ) =>
                ( last_call.new_anchor = Some(110) /\ last_call.new_stop = Some(106) )
          /\ Get(last_call.new_stop) >= Get(last_call.prev_stop)
    /\ ( last_call.op = "trail" /\ last_call.side = "SHORT" ) =>
          /\ last_call.new_anchor
                = Some(Min(Get(last_call.prev_anchor), last_call.low))
          /\ last_call.new_stop
                = Some(Min(Get(last_call.prev_stop),
                           Get(last_call.new_anchor) + 2 * last_call.atr))
          /\ Get(last_call.new_stop) <= Get(last_call.prev_stop)
    /\ last_call.op = "trail" =>
          /\ Get(broker.tracked[ccxt_symbol]).stop_price = last_call.new_stop
          /\ Get(broker.tracked[ccxt_symbol]).trailing_anchor_price \in
                { last_call.new_anchor, last_call.prev_anchor }

\* the stop raised to 106 at anchor 110, then a candidate of 102 that leaves it
C23_Witness ==
    /\ last_call.op = "trail"
    /\ last_call.side = "LONG"
    /\ last_call.prev_stop = Some(106)
    /\ last_call.prev_anchor = Some(110)
    /\ last_call.atr = 4
    /\ last_call.new_stop = Some(106)
    /\ emitted = << Some(106), Some(106) >>

\* C24: over any sequence of broker operations the stop of a tracked position,
\* once set, never decreases for a LONG position and never increases for a
\* SHORT position while that position stays open.
C24_StopNeverLoosens ==
    [][ ( /\ IsSome(broker.tracked[ccxt_symbol])
          /\ IsSome(broker'.tracked[ccxt_symbol])
          /\ IsSome(Get(broker.tracked[ccxt_symbol]).stop_price)
          /\ Get(broker'.tracked[ccxt_symbol]).entry_ts_ms
               = Get(broker.tracked[ccxt_symbol]).entry_ts_ms
          /\ broker'.trades_closed = broker.trades_closed )
        => /\ IsSome(Get(broker'.tracked[ccxt_symbol]).stop_price)
           /\ Get(broker.tracked[ccxt_symbol]).side = "LONG" =>
                 Get(Get(broker'.tracked[ccxt_symbol]).stop_price)
                   >= Get(Get(broker.tracked[ccxt_symbol]).stop_price)
           /\ Get(broker.tracked[ccxt_symbol]).side = "SHORT" =>
                 Get(Get(broker'.tracked[ccxt_symbol]).stop_price)
                   <= Get(Get(broker.tracked[ccxt_symbol]).stop_price) ]_vars

\* the replay held the broker flat before the boundary: the rows before it show
\* no position and no signal, no step before it trailed or evaluated an exit,
\* and no position was entered before it
FlatBeforeBoundary ==
    last_call.op = "run_backtest" =>
        /\ \A k \in 1..Len(bt_ledger) :
              bt_ledger[k].ts_ms < last_call.trade_start_ts_ms =>
                  /\ bt_ledger[k].position_side = ""
                  /\ bt_ledger[k].position_qty = None
                  /\ bt_ledger[k].position_entry_price = None
                  /\ bt_ledger[k].entry_should_enter = None
                  /\ bt_ledger[k].exit_should_exit = None
        /\ \A k \in 1..Len(bt_steps) :
              bt_steps[k].ts < last_call.trade_start_ts_ms =>
                  ( ~bt_steps[k].trailed /\ ~bt_steps[k].exit_evaluated )
        /\ IsSome(bt_broker.tracked[ccxt_symbol]) =>
              Get(bt_broker.tracked[ccxt_symbol]).entry_ts_ms >= last_call.trade_start_ts_ms
        /\ \A k \in 1..Len(bt_trades) :
              bt_trades[k].entry_ts_ms >= last_call.trade_start_ts_ms

\* C25: in a replay with a trading start boundary every bar before the
\* boundary is processed and recorded, and the broker stays flat before it:
\* no signal is evaluated, no position is opened, every such record shows a
\* flat snapshot, and the first position is created at or after the boundary.
C25_FlatUntilBoundary ==
    last_call.op = "run_backtest" =>
        /\ \A i \in 1..Len(bars) :
              bars[i].ts < last_call.trade_start_ts_ms =>
                  \E k \in 1..Len(bt_ledger) : bt_ledger[k].ts_ms = bars[i].ts
        /\ FlatBeforeBoundary

\* C26: when the same position is stopped out on the same bar, the live driver
\* fills at stop_price and the replay at min(bar_open, stop_price) for LONG,
\* max(bar_open, stop_price) for SHORT; the closing bar, exit_ts_ms, the exit
\* reason, the removal of the position and the cooldown reference time are
\* the same in both.
C26_StopThroughOnlyFillPrice ==
    ( \/ Len(trades) > 0 /\ Last(trades).exit_reason = "stop_hit"
      \/ Len(bt_trades) > 0 /\ Last(bt_trades).exit_reason = "stop_hit" ) =>
        /\ Len(trades) = 1 /\ Len(bt_trades) = 1
        /\ trades[1].exit_reason = bt_trades[1].exit_reason
        /\ trades[1].exit_ts_ms = bt_trades[1].exit_ts_ms
        /\ trades[1].exit_ts_ms = Some(last_call.bar.ts)
        /\ trades[1].entry_ts_ms = bt_trades[1].entry_ts_ms
        /\ trades[1].side = bt_trades[1].side
        /\ trades[1].qty = bt_trades[1].qty
        /\ trades[1].entry_price = bt_trades[1].entry_price
        /\ trades[1].stop_price = bt_trades[1].stop_price
        /\ broker.tracked[ccxt_symbol] = None
        /\ bt_broker.tracked[ccxt_symbol] = None
        /\ broker.last_exit_ts_ms = bt_broker.last_exit_ts_ms
        /\ broker.trades_closed = bt_broker.trades_closed
        /\ cycle.ts = Last(bt_steps).ts
        /\ cycle.rows[1].exit_reason = Last(bt_steps).rows[1].exit_reason
        /\ trades[1].exit_price = Get(trades[1].stop_price)
        /\ bt_trades[1].exit_price =
              IF bt_trades[1].side = "LONG"
              THEN Min(last_call.bar.open, Get(bt_trades[1].stop_price))
              ELSE Max(last_call.bar.open, Get(bt_trades[1].stop_price))

\* a SHORT position stopped out on a bar that opened above its stop
C26_Witness ==
    /\ Len(trades) = 1
    /\ Len(bt_trades) = 1
    /\ trades[1].exit_reason = "stop_hit"
    /\ trades[1].side = "SHORT"
    /\ bt_trades[1].exit_price > trades[1].exit_price
    /\ bt_trades[1].exit_price = last_call.bar.open

\* C27: at every bar the live driver processes, the degraded flag in force
\* equals the watchdog predicate on the current state: the cadence check of
\* the merged window fails, or cadence_failed is in at least 2 of the last 6
\* tags, or features_invalid is in at least 2 of the last 6 tags.
C27_FlagIsWatchdogPredicate ==
    [][ ( cycle'.driver = "live" /\ Len(LiveWindow) >= MinBars ) =>
          ( degraded_mode' <=>
              ( \/ ~cadence_ok(LiveWindow, ExpectedStepS)
                \/ is_degraded(recent_reasons, TRUE).degraded ) ) ]_vars

\* C28: the watchdog window never holds more than 12 tags and gets exactly one
\* tag per distinct processed bar: the first cycle on a bar appends one tag and
\* a further poll of the same bar appends none, so two failures in the window
\* are failures of two distinct bars.
C28_OneTagPerBar ==
    [][ /\ Len(recent_reasons') <= RecentMaxLen
        /\ ( cycle'.driver = "live" /\ polls >= 1 ) => recent_reasons' = recent_reasons
        /\ ( cycle'.driver = "live" /\ polls = 0 ) =>
              /\ Len(recent_reasons') = Min(Len(recent_reasons) + 1, RecentMaxLen)
              /\ recent_reasons' = deque_append(recent_reasons, Last(recent_reasons')) ]_vars

\* C29: the degraded state can be rebuilt from the ledger tail: at any point
\* of a run the flag and the reason computed from the window a restart would
\* seed from the ledger's market_reason column equal the flag and the reason
\* computed from the running process's window.
C29_DegradedFromLedgerTail ==
    is_degraded(read_tail_market_reasons(ledger, SeedTailN, SeedWindowK), TRUE)
        = is_degraded(recent_reasons, TRUE)

\* the live driver has just processed the newest closed bar, and the last n
\* closed bars are valid bars at the expected cadence that all have their row
\* in the ledger
CleanRun(n) ==
    /\ cycle.driver = "live"
    /\ cycle.ts = Last(LiveWindow).ts
    /\ Len(LiveWindow) >= n + 1
    /\ \A i \in (Len(LiveWindow) - n + 1)..Len(LiveWindow) :
          /\ LiveWindow[i].valid
          /\ LiveWindow[i].ts - LiveWindow[i - 1].ts = step_ms
          /\ \E k \in 1..Len(ledger) : ledger[k].ts_ms = LiveWindow[i].ts

\* C30: degraded mode is left again: once 6 bars in a row with good cadence
\* and valid features have been processed, the degraded flag is false, with or
\* without an open position or a cooldown.
C30_DegradedModeIsLeft ==
    CleanRun(WatchdogWindow) => ~degraded_mode

\* the valid (positive) ts_ms values of the rows of the live decisions file
ValidLedgerTs == { ledger[i].ts_ms : i \in { j \in DOMAIN ledger : ledger[j].ts_ms > 0 } }

\* C31: the watermark seeded at process start is the maximum valid ts_ms of
\* the existing ledger file, whatever the file holds, and is undefined when
\* the file is empty or has no valid ts_ms.
C31_SeedIsMaxValidTs ==
    cycle.driver = "restart" =>
        /\ ValidLedgerTs = {} => last_decision_ts_ms = None
        /\ ValidLedgerTs # {} => last_decision_ts_ms = Some(SetMax(ValidLedgerTs))

\* the conditions of the guard at the last guarded entry
KillHolds == last_call.kill

HaltHolds == last_call.halt

DryRunHolds == last_call.env.require_armed /\ last_call.env.dry_run

NotArmedHolds == last_call.env.require_armed /\ ~last_call.env.armed

BadInputsHold == last_call.price <= 0 \/ last_call.size <= 0

OrderCapHolds ==
    /\ last_call.env.max_order_usd > 0
    /\ last_call.price * last_call.size > last_call.env.max_order_usd

PositionCapHolds ==
    /\ last_call.env.max_position_usd > 0
    /\ last_call.price * (last_call.existing_qty + last_call.size)
         > last_call.env.max_position_usd

\* C32: the guard tests kill-switch file, halt-orders file, dry-run and
\* not-armed (when arming is required), invalid price or size, the order cap
\* and the position cap in this order: the reason reported is that of the
\* first condition that holds, and the entry reaches the inner broker exactly
\* when no condition holds.
C32_GuardOrder ==
    [][ last_call'.op = "guarded_open" =>
          /\ KillHolds' => last_call'.reason = "kill_switch"
          /\ ( ~KillHolds' /\ HaltHolds' ) => last_call'.reason = "halt_orders"
          /\ ( ~KillHolds' /\ ~HaltHolds' /\ DryRunHolds' ) => last_call'.reason = "dry_run"
          /\ ( ~KillHolds' /\ ~HaltHolds' /\ ~DryRunHolds' /\ NotArmedHolds' ) =>
                last_call'.reason = "not_armed"
          /\ ( ~KillHolds' /\ ~HaltHolds' /\ ~DryRunHolds' /\ ~NotArmedHolds'
                /\ BadInputsHold' ) => last_call'.reason = "bad_inputs"
          /\ ( ~KillHolds' /\ ~HaltHolds' /\ ~DryRunHolds' /\ ~NotArmedHolds'
                /\ ~BadInputsHold' /\ OrderCapHolds' ) => last_call'.reason = "max_order_usd"
          /\ ( ~KillHolds' /\ ~HaltHolds' /\ ~DryRunHolds' /\ ~NotArmedHolds'
                /\ ~BadInputsHold' /\ ~OrderCapHolds' /\ PositionCapHolds' ) =>
                last_call'.reason = "max_position_usd"
          /\ last_call'.reason = "" <=>
                ~( KillHolds' \/ HaltHolds' \/ DryRunHolds' \/ NotArmedHolds'
                   \/ BadInputsHold' \/ OrderCapHolds' \/ PositionCapHolds' )
          /\ ~IsSome(broker.tracked[ccxt_symbol]) =>
                ( IsSome(broker'.tracked[ccxt_symbol]) <=> last_call'.reason = "" )
          /\ last_call'.reason # "" => broker' = broker ]_vars

\* an entry onto an existing position that exceeds both caps: the order cap is
\* the one reported
C32_Witness ==
    /\ last_call.op = "guarded_open"
    /\ ~KillHolds /\ ~HaltHolds /\ ~DryRunHolds /\ ~NotArmedHolds
    /\ OrderCapHolds
    /\ PositionCapHolds
    /\ last_call.reason = "max_order_usd"
    /\ last_call.existing_qty > 0

\* C33: the stored trailing anchor is the most favourable price seen since
\* entry: it starts at the entry bar's extreme, and every bar on which trailing
\* is evaluated leaves it at the maximum of itself and the bar's high for LONG,
\* at the minimum of itself and the bar's low for SHORT.
C33_AnchorIsRunningExtreme ==
    [][ last_call'.op = "trail" =>
          Get(broker'.tracked[ccxt_symbol]).trailing_anchor_price =
              IF last_call'.side = "LONG"
              THEN Some(Max(Get(Get(broker.tracked[ccxt_symbol]).trailing_anchor_price),
                            last_call'.high))
              ELSE Some(Min(Get(Get(broker.tracked[ccxt_symbol]).trailing_anchor_price),
                            last_call'.low)) ]_vars

\* C34: when the bar being processed is classified non-tradable (too few
\* bars, cadence failure or invalid latest features) while a position is open,
\* evaluate_exit says exit with the market-state reason and the driver closes
\* the position on that bar.
C34_ExitWhenNotTradable ==
    [][ ( /\ cycle'.driver = "live"
          /\ IsSome(broker.tracked[ccxt_symbol])
          /\ ~determine_market_state(LiveWindow, MinBars).tradable ) =>
          /\ evaluate_exit(Get(broker.tracked[ccxt_symbol]), Last(LiveWindow).close,
                           Last(LiveWindow).ts, determine_market_state(LiveWindow, MinBars),
                           ExpectedStepS)
               = [ should_exit |-> TRUE,
                   reason |-> determine_market_state(LiveWindow, MinBars).reason ]
          /\ ~IsSome(broker'.tracked[ccxt_symbol])
          /\ Len(trades') = Len(trades) + 1 ]_vars

\* C35: on a tradable market evaluate_exit answers stop_hit exactly when the
\* bar is not the position's entry bar and the bar close is at or through the
\* stop (LONG: close <= stop, SHORT: close >= stop); on the entry bar it never
\* answers stop_hit, whatever the close and the stop.
StopBreached(position, close) ==
    /\ IsSome(position.stop_price)
    /\ \/ position.side = "LONG" /\ close <= Get(position.stop_price)
       \/ position.side = "SHORT" /\ close >= Get(position.stop_price)

C35_EntryBarExemptFromStop ==
    (last_call.op = "evaluate_exit" /\ last_call.tradable) =>
        LET position == Get(broker.tracked[ccxt_symbol])
        IN  /\ last_call.now_ts_ms = position.entry_ts_ms => last_call.reason # "stop_hit"
            /\ last_call.now_ts_ms # position.entry_ts_ms =>
                  ( (last_call.should_exit /\ last_call.reason = "stop_hit")
                      <=> StopBreached(position, last_call.close) )

\* a tradable entry bar closes through the stop and no exit is signalled
C35_Witness ==
    /\ last_call.op = "evaluate_exit"
    /\ last_call.tradable
    /\ last_call.now_ts_ms = Get(broker.tracked[ccxt_symbol]).entry_ts_ms
    /\ StopBreached(Get(broker.tracked[ccxt_symbol]), last_call.close)
    /\ ~last_call.should_exit

\* C36: evaluate_entry answers should_enter only when the market state is
\* tradable, the confidence is a number of at least 0.60 and the trend is
\* directional with the matching side (up gives LONG, down gives SHORT),
\* whatever the process environment holds.
C36_EntryNeedsDirectionalTrend ==
    (last_call.op = "evaluate_entry" /\ last_call.should_enter) =>
        /\ last_call.tradable
        /\ IsSome(last_call.confidence)
        /\ Get(last_call.confidence) >= CONFIDENCE_ENTER
        /\ \/ last_call.trend = "up" /\ last_call.side = "LONG"
           \/ last_call.trend = "down" /\ last_call.side = "SHORT"

\* C37: determine_market_state answers tradable exactly when the window has
\* at least min_bars rows, its median timestamp spacing is within the
\* tolerance of the expected step and its latest row is valid; a rejection is
\* a complete MarketState with tradable false and the reason of the first
\* failing condition in the order rows, cadence, latest features; a tradable
\* state has cadence_ok and has_enough_bars.
MedianSpacingWithinTolerance(w) ==
    /\ Len(w) >= 2
    /\ Abs(TwiceMedian([ i \in 1..(Len(w) - 1) |-> w[i + 1].ts - w[i].ts ])
             - 2 * ExpectedStepS * 1000) <= 2 * CadenceTolMs

MarketStates ==
    [ tradable : BOOLEAN, trend : { "up", "down", "flat" },
      volatility : { "low", "normal", "high" }, cadence_ok : BOOLEAN,
      has_enough_bars : BOOLEAN,
      reason : { "ok", "not_enough_bars", "cadence_not_ok", "latest_features_invalid" } ]

StatedNetPnl(side, qty, entry_price, exit_price, fee_bps, slippage_bps) ==
    (IF side = "LONG" THEN (exit_price - entry_price) * qty
     ELSE (entry_price - exit_price) * qty) * BpsDenominator
      - (fee_bps + slippage_bps) * (entry_price * qty + exit_price * qty)

RECURSIVE StatedTotal(_, _, _, _)
StatedTotal(closed, k, fee_bps, slippage_bps) ==
    IF k = 0 THEN 0
    ELSE StatedTotal(closed, k - 1, fee_bps, slippage_bps)
           + StatedNetPnl(closed[k].side, closed[k].qty, closed[k].entry_price,
                          closed[k].exit_price, fee_bps, slippage_bps)

StatedClose(position) ==
    /\ broker'.realized_pnl_usd_total =
          broker.realized_pnl_usd_total
            + StatedNetPnl(position.side, position.qty, position.entry_price,
                           last_call'.price, broker.fee_bps, broker.slippage_bps)
    /\ broker'.trades_closed = broker.trades_closed + 1
    /\ ~IsSome(broker'.tracked[ccxt_symbol])
    /\ IsSome(last_call'.ts_ms) =>
          broker'.last_exit_ts_ms[ccxt_symbol] = last_call'.ts_ms

C38_RealizedTotals ==
    /\ [](/\ broker.realized_pnl_usd_total
               = StatedTotal(trades, Len(trades), broker.fee_bps, broker.slippage_bps)
           /\ broker.trades_closed = Len(trades))
    /\ [][ last_call'.op = "realize_and_close" =>
              IF IsSome(broker.tracked[ccxt_symbol])
              THEN StatedClose(Get(broker.tracked[ccxt_symbol]))
              ELSE broker' = broker ]_vars

\* C39: after a close at bar time T neither driver opens a position on a bar
\* before T + CooldownBars * step_ms, and from that bar on the cooldown no
\* longer refuses an entry.
CooldownOver(b) ==
    IsSome(b.last_exit_ts_ms[ccxt_symbol]) =>
        cooldown_remaining_bars(b, ccxt_symbol,
                                Get(b.last_exit_ts_ms[ccxt_symbol]) + CooldownBars * step_ms,
                                ExpectedStepS, CooldownBars) = 0

ReplayOpened(step) ==
    /\ step.rows # << >>
    /\ step.rows[1].entry_should_enter = Some(TRUE)

ReplayClosed(step) ==
    /\ step.rows # << >>
    /\ step.rows[1].exit_should_exit = Some(TRUE)

C39_CooldownEnforced ==
    /\ [](/\ CooldownOver(broker)
           /\ CooldownOver(bt_broker)
           /\ \A j \in 1..Len(bt_steps) : \A k \in (j + 1)..Len(bt_steps) :
                 (ReplayClosed(bt_steps[j]) /\ ReplayOpened(bt_steps[k])) =>
                     bt_steps[k].ts >= bt_steps[j].ts + CooldownBars * step_ms)
    /\ [][ ( /\ cycle'.driver = "live"
             /\ ~IsSome(broker.tracked[ccxt_symbol])
             /\ IsSome(broker'.tracked[ccxt_symbol]) ) =>
              \A k \in 1..Len(trades) :
                  IsSome(trades[k].exit_ts_ms) =>
                      cycle'.ts >= Get(trades[k].exit_ts_ms) + CooldownBars * step_ms ]_vars

\* C40: a position is not closed while it is pending, so every trade record
\* of either driver has exit_ts_ms >= entry_ts_ms, and the decision file of
\* the driver holds a record with exit_should_exit true at the trade's
\* exit_ts_ms.
ClosedInOrder(trade, file) ==
    /\ IsSome(trade.exit_ts_ms)
    /\ Get(trade.exit_ts_ms) >= trade.entry_ts_ms
    /\ \E k \in 1..Len(file) :
          /\ file[k].ts_ms = Get(trade.exit_ts_ms)
          /\ file[k].exit_should_exit = Some(TRUE)

C40_LifecycleOrdered ==
    /\ \A k \in 1..Len(trades) : ClosedInOrder(trades[k], ledger)
    /\ \A k \in 1..Len(bt_trades) : ClosedInOrder(bt_trades[k], bt_ledger)

=============================================================================
